---- MODULE Spec2Model ----
(***************************************************************************)
(* Model of the spaced-repetition scheduler (alexa/srs.py), the question   *)
(* generator (alexa/math_questions.py) and the mastery record              *)
(* (alexa/models.py) of the German math quiz skill.                        *)
(*                                                                         *)
(* Identifiers are Python strings; they are modelled as sequences of       *)
(* one-character strings so that formatting (str, f-strings), splitting    *)
(* and int() parsing are computed, not assumed.                            *)
(* An Optional value is a sequence of length <= 1: <<>> is None.           *)
(***************************************************************************)
EXTENDS Integers, Sequences, FiniteSets, TLC

VARIABLES
    stats,             \* SpacedRepetition._stats: question_id -> QuestionStats
    grade,             \* SpacedRepetition._grade
    session_asked,     \* SpacedRepetition._session_asked
    recent_questions,  \* SpacedRepetition._recent_questions
    now,               \* the clock read by datetime.now(), in whole hours
    call,              \* the last operation invoked and its arguments
    result,            \* what the last operation returned (or raised)
    log,               \* the record_answer calls since construction / reset_session
    answers,           \* number of record_answer calls since construction
    candidates,        \* _weighted_box_selection's candidates: key -> final_weight
    loaded,            \* the mastery map another scheduler / a PersistenceManager loaded
    persistent_attributes,  \* the stored items: user_id -> players -> player data
    requests,          \* requests in flight, each with the attributes it has read and its position
    session_attr,      \* the session attributes of the quiz session
    request_envelope,  \* the request being handled: its intent and slot value
    response           \* what the handler put on the response builder

vars == <<stats, grade, session_asked, recent_questions, now, call, result, log, answers,
          candidates, loaded, persistent_attributes, requests, session_attr,
          request_envelope, response>>

\* what only the handlers and the persistence layer touch
handler_vars == <<candidates, loaded, persistent_attributes, requests, session_attr,
                  request_envelope, response>>

-----------------------------------------------------------------------------
(* Bounds of the model *)

\* record_answer calls in one behaviour of Spec
MaxAnswers == 2
\* record_answer calls in one behaviour of SpecFifo (must exceed max_recent)
MaxFifoAnswers == 6
\* a random draw in SpecGen yields a value at most this far from an end of its interval
GenSpan == 2
\* underscore-delimited fields of an identifier handed to _reconstruct_question in SpecRecon
MaxFields == 4
\* record_answer calls in one behaviour of SpecBox (must exceed MAX_BOX)
MaxBoxAnswers == 6
\* record_answer calls in one behaviour of SpecQuiz (a whole quiz is MAX_QUESTIONS)
MaxQuizAnswers == 10

-----------------------------------------------------------------------------
(* Program constants *)

MAX_BOX == 5
MIN_BOX == 1
max_recent == 5
max_attempts == 20
MAX_QUESTIONS == 10

None == <<>>
Some(x) == <<x>>

Min(a, b) == IF a <= b THEN a ELSE b
Max(a, b) == IF a >= b THEN a ELSE b

-----------------------------------------------------------------------------
(* Python strings *)

Digits == <<"0", "1", "2", "3", "4", "5", "6", "7", "8", "9">>
DigitChars == {Digits[i] : i \in 1..10}
DigitVal(c) == (CHOOSE i \in 1..10 : Digits[i] = c) - 1

RECURSIVE NatStr(_)
NatStr(n) == IF n < 10 THEN <<Digits[n + 1]>>
             ELSE NatStr(n \div 10) \o <<Digits[(n % 10) + 1]>>

\* str(int), as the f-string of generate_question_id formats an operand
str(n) == IF n < 0 THEN <<"-">> \o NatStr(0 - n) ELSE NatStr(n)

\* str.split("_"): the fields between the separators, empty fields included
RECURSIVE split(_)
split(s) ==
    IF \E i \in 1..Len(s) : s[i] = "_"
    THEN LET i == CHOOSE j \in 1..Len(s) : s[j] = "_" /\ \A k \in 1..(j - 1) : s[k] # "_"
         IN  <<SubSeq(s, 1, i - 1)>> \o split(SubSeq(s, i + 1, Len(s)))
    ELSE <<s>>

\* the whitespace int() strips from both ends
RECURSIVE lstrip(_)
lstrip(s) == IF s # <<>> /\ s[1] = " " THEN lstrip(Tail(s)) ELSE s
RECURSIVE rstrip(_)
rstrip(s) == IF s # <<>> /\ s[Len(s)] = " " THEN rstrip(SubSeq(s, 1, Len(s) - 1)) ELSE s
strip(s) == rstrip(lstrip(s))

\* the digits of an int() literal once whitespace and an optional sign are removed
IntBody(s) == LET t == strip(s)
              IN  IF t # <<>> /\ t[1] \in {"+", "-"} THEN Tail(t) ELSE t

\* int(s) succeeds (otherwise it raises ValueError)
IsInt(s) == LET b == IntBody(s)
            IN  b # <<>> /\ \A i \in 1..Len(b) : b[i] \in DigitChars

RECURSIVE NatVal(_)
NatVal(b) == IF Len(b) = 1 THEN DigitVal(b[1])
             ELSE 10 * NatVal(SubSeq(b, 1, Len(b) - 1)) + DigitVal(b[Len(b)])

\* int(s) for a string on which it succeeds
int(s) == LET t == strip(s)
          IN  IF t[1] = "-" THEN 0 - NatVal(IntBody(s)) ELSE NatVal(IntBody(s))

\* Python's floor division by a non-zero divisor
FloorDiv(a, b) == IF b > 0 THEN a \div b ELSE (0 - a) \div (0 - b)

-----------------------------------------------------------------------------
(* alexa/math_questions.py *)

\* Operation (the enum's values) and the characters of each value
Operation == {"add", "sub", "mul", "div"}
OpChars(op) == CASE op = "add" -> <<"a", "d", "d">>
                 [] op = "sub" -> <<"s", "u", "b">>
                 [] op = "mul" -> <<"m", "u", "l">>
                 [] op = "div" -> <<"d", "i", "v">>

Range(a, b) == [i \in 1..(b - a + 1) |-> a + i - 1]

GRADE_CONFIGS ==
    [g \in 1..4 |->
        CASE g = 1 -> [operations |-> <<"add">>,
                       number_range |-> <<1, 10>>,
                       multiplication_tables |-> <<>>]
          [] g = 2 -> [operations |-> <<"add", "sub", "mul">>,
                       number_range |-> <<0, 100>>,
                       multiplication_tables |-> <<2, 5, 10>>]
          [] g = 3 -> [operations |-> <<"add", "sub", "mul", "div">>,
                       number_range |-> <<0, 100>>,
                       multiplication_tables |-> Range(1, 10)]
          [] g = 4 -> [operations |-> <<"add", "sub", "mul", "div">>,
                       number_range |-> <<0, 1000>>,
                       multiplication_tables |-> Range(1, 12)]]

generate_question_id_swapped(operation, operand1, operand2) ==
    OpChars(operation) \o <<"_">> \o str(operand2) \o <<"_">> \o str(operand1)

generate_question_id(operation, operand1, operand2) ==
    OpChars(operation) \o <<"_">> \o str(operand1) \o <<"_">> \o str(operand2)

\* MathQuestion (the German prompt text is not modelled)
MathQuestion(operation, operand1, operand2, answer) ==
    [question_id    |-> generate_question_id(operation, operand1, operand2),
     operand1       |-> operand1,
     operand2       |-> operand2,
     operation      |-> operation,
     correct_answer |-> answer]

\* random.randint(lo, hi): the values the model lets it return, those at most
\* span away from an end of [lo, hi]
randint(lo, hi, span) == {x \in lo..hi : x - lo <= span \/ hi - x <= span}

\* random.choice(list): the elements at most span positions from an end
choice(list, span) ==
    {list[i] : i \in {j \in 1..Len(list) : j - 1 <= span \/ Len(list) - j <= span}}

_generate_addition(config, span) ==
    LET min_num == config.number_range[1]
        max_num == config.number_range[2]
    IN  UNION {{MathQuestion("add", operand1, operand2, operand1 + operand2) :
                    operand2 \in randint(min_num, Max(min_num, max_num - operand1), span)} :
               operand1 \in randint(min_num, max_num, span)}

_generate_subtraction_unbounded(config, span) ==
    LET min_num == config.number_range[1]
        max_num == config.number_range[2]
    IN  UNION {{MathQuestion("sub", operand1, operand2, operand1 - operand2) :
                    operand2 \in randint(min_num, max_num, span)} :
               operand1 \in randint(min_num, max_num, span)}

_generate_subtraction(config, span) ==
    LET min_num == config.number_range[1]
        max_num == config.number_range[2]
    IN  UNION {{MathQuestion("sub", operand1, operand2, operand1 - operand2) :
                    operand2 \in randint(min_num, operand1, span)} :
               operand1 \in randint(min_num, max_num, span)}

_generate_multiplication_from_zero(config, span) ==
    LET tables == IF config.multiplication_tables # <<>>
                  THEN config.multiplication_tables ELSE <<2, 5, 10>>
    IN  UNION {UNION {{MathQuestion("mul", operand1, operand2, operand1 * operand2),
                       MathQuestion("mul", operand2, operand1, operand2 * operand1)} :
                    operand2 \in randint(0, 10, span)} :
               operand1 \in choice(tables, span)}

_generate_multiplication(config, span) ==
    LET tables == IF config.multiplication_tables # <<>>
                  THEN config.multiplication_tables ELSE <<2, 5, 10>>
    IN  UNION {UNION {{MathQuestion("mul", operand1, operand2, operand1 * operand2),
                       MathQuestion("mul", operand2, operand1, operand2 * operand1)} :
                    operand2 \in randint(1, 10, span)} :
               operand1 \in choice(tables, span)}

_generate_division_swapped(config, span) ==
    LET tables == IF config.multiplication_tables # <<>>
                  THEN config.multiplication_tables ELSE Range(1, 10)
    IN  UNION {{MathQuestion("div", divisor, divisor * quotient, quotient) :
                    quotient \in randint(1, 10, span)} :
               divisor \in choice(tables, span)}

_generate_division(config, span) ==
    LET tables == IF config.multiplication_tables # <<>>
                  THEN config.multiplication_tables ELSE Range(1, 10)
    IN  UNION {{MathQuestion("div", divisor * quotient, divisor, quotient) :
                    quotient \in randint(1, 10, span)} :
               divisor \in choice(tables, span)}

_OPERATION_GENERATORS(operation, config, span) ==
    CASE operation = "add" -> _generate_addition(config, span)
      [] operation = "sub" -> _generate_subtraction(config, span)
      [] operation = "mul" -> _generate_multiplication(config, span)
      [] operation = "div" -> _generate_division(config, span)

SeqToSet(s) == {s[i] : i \in 1..Len(s)}

generate_question_raises_grade_only(g, operation) == g \notin DOMAIN GRADE_CONFIGS

\* generate_question raises ValueError for this grade and Optional operation
generate_question_raises(g, operation) ==
    \/ g \notin DOMAIN GRADE_CONFIGS
    \/ /\ operation # None
       /\ operation[1] \notin SeqToSet(GRADE_CONFIGS[g].operations)

\* generate_question: the questions it can return when it does not raise
generate_question(g, operation, span) ==
    LET config == GRADE_CONFIGS[g]
        ops    == IF operation = None THEN choice(config.operations, span)
                  ELSE {operation[1]}
    IN  UNION {_OPERATION_GENERATORS(op, config, span) : op \in ops}

-----------------------------------------------------------------------------
(* alexa/srs.py: _reconstruct_question *)

\* an operation's outcome: the exception that escaped it ("" for none) and
\* its Optional return value
Returned(v) == [exc |-> "", value |-> v]
Raised(e) == [exc |-> e, value |-> None]

op_map(op_str) == IF \E op \in Operation : OpChars(op) = op_str
                  THEN Some(CHOOSE op \in Operation : OpChars(op) = op_str)
                  ELSE None

division_answer_by_one(operand1, operand2) ==
    IF operand2 # 0 THEN FloorDiv(operand1, operand2) ELSE operand1

\* operand1 // operand2 if operand2 != 0 else 0
division_answer(operand1, operand2) ==
    IF operand2 # 0 THEN FloorDiv(operand1, operand2) ELSE 0

\* the body of the try block
reconstruct_try(question_id) ==
    LET parts == split(question_id)
    IN  IF Len(parts) # 3 THEN Returned(None)
        ELSE IF ~IsInt(parts[2]) \/ ~IsInt(parts[3]) THEN Raised("ValueError")
        ELSE LET operand1  == int(parts[2])
                 operand2  == int(parts[3])
                 operation == op_map(parts[1])
             IN  IF operation = None THEN Returned(None)
                 ELSE LET op == operation[1]
                          answer == CASE op = "add" -> operand1 + operand2
                                      [] op = "sub" -> operand1 - operand2
                                      [] op = "mul" -> operand1 * operand2
                                      [] op = "div" -> division_answer(operand1, operand2)
                      IN  Returned(Some([question_id    |-> question_id,
                                         operand1       |-> operand1,
                                         operand2       |-> operand2,
                                         operation      |-> op,
                                         correct_answer |-> answer]))

_reconstruct_question_uncaught(question_id) == reconstruct_try(question_id)

\* try ... except (ValueError, IndexError): return None
_reconstruct_question(question_id) ==
    LET r == reconstruct_try(question_id)
    IN  IF r.exc \in {"ValueError", "IndexError"} THEN Returned(None) ELSE r

-----------------------------------------------------------------------------
(* alexa/models.py: QuestionStats *)

QuestionStats(question_id) ==
    [question_id     |-> question_id,
     correct_count   |-> 0,
     incorrect_count |-> 0,
     last_asked      |-> None,
     box             |-> 1]

total_attempts(st) == st.correct_count + st.incorrect_count

-----------------------------------------------------------------------------
(* alexa/srs.py: the scheduler *)

BOX_WEIGHTS_linear(box_num) ==
    CASE box_num = 1 -> 160
      [] box_num = 2 -> 128
      [] box_num = 3 -> 96
      [] box_num = 4 -> 64
      [] box_num = 5 -> 32
      [] OTHER -> 16

\* BOX_WEIGHTS.get(box_num, 0.1), in units of 1/160
BOX_WEIGHTS(box_num) ==
    CASE box_num = 1 -> 160
      [] box_num = 2 -> 80
      [] box_num = 3 -> 40
      [] box_num = 4 -> 20
      [] box_num = 5 -> 10
      [] OTHER -> 16

\* _time_factor, in units of 1/336, on a clock of whole hours
_time_factor(st, t) ==
    IF st.last_asked = None THEN 504
    ELSE LET hours_since == t - st.last_asked[1]
         IN  IF hours_since < 1 THEN 168
             ELSE IF hours_since < 24 THEN 336
             ELSE Min(672, 336 + 2 * hours_since)

\* final_weight = weight * self._time_factor(stats), in units of 1/(160 * 336)
final_weight(st, t) == BOX_WEIGHTS(st.box) * _time_factor(st, t)

available_all(s, recent) == DOMAIN s

\* the keys of _stats that are not in _recent_questions
available(s, recent) == {q_id \in DOMAIN s : q_id \notin SeqToSet(recent)}

RECURSIVE SumWeights(_, _, _)
SumWeights(s, keys, t) ==
    IF keys = {} THEN 0
    ELSE LET k == CHOOSE x \in keys : TRUE
         IN  final_weight(s[k], t) + SumWeights(s, keys \ {k}, t)

\* _weighted_box_selection: the keys of the records the cumulative-weight
\* draw can select among the candidates (any of them when the total is zero)
_weighted_box_selection(s, cands, t) ==
    IF SumWeights(s, cands, t) = 0 THEN cands
    ELSE {k \in cands : final_weight(s[k], t) > 0}

_should_generate_new_by_ratio(s, recent) == {TRUE, FALSE}

\* _should_generate_new: the values it can return
_should_generate_new(s, recent) ==
    IF DOMAIN s = {} THEN {TRUE}
    ELSE IF available(s, recent) = {} THEN {TRUE}
    ELSE {TRUE, FALSE}

\* the attempts (1..max_attempts) at which the model lets the retry loop accept
AttemptSamples == {1, max_attempts}

\* what get_next_question hands back: the exception that escaped it or the
\* question, with the path taken, the record selected for review, the number
\* of generate_question calls made and the candidate of the last loop iteration
Outcome(exc, value, path, selected, calls, last_candidate) ==
    [exc |-> exc, value |-> value, path |-> path, selected |-> selected,
     calls |-> calls, last_candidate |-> last_candidate]

NoResult == Outcome("", None, "", None, 0, None)

skipped_low_box_only(s, recent, q) ==
    q.question_id \in DOMAIN s /\ s[q.question_id].box < 3

\* the loop of _generate_new_question skips this candidate
skipped(s, recent, q) ==
    \/ q.question_id \in SeqToSet(recent)
    \/ q.question_id \in DOMAIN s /\ s[q.question_id].box < 3

_generate_new_question_retrying(s, g, recent, span, path, selected) ==
    IF generate_question_raises(g, None)
    THEN {Outcome("ValueError", None, path, selected, 1, None)}
    ELSE LET generated == generate_question(g, None, span)
             rejected  == {q \in generated : skipped(s, recent, q)}
             accepted  == generated \ rejected
             attempts  == IF rejected = {} THEN {1} ELSE AttemptSamples
         IN  {Outcome("", Some(q), path, selected, k, Some(q)) :
                  q \in accepted, k \in attempts}
             \cup
             {Outcome("", Some(q), path, selected, 2 * max_attempts + 1, Some(last)) :
                  q \in accepted, last \in rejected}

_generate_new_question_last(s, g, recent, span, path, selected) ==
    IF generate_question_raises(g, None)
    THEN {Outcome("ValueError", None, path, selected, 1, None)}
    ELSE LET generated == generate_question(g, None, span)
             rejected  == {q \in generated : skipped(s, recent, q)}
             accepted  == generated \ rejected
             attempts  == IF rejected = {} THEN {1} ELSE AttemptSamples
         IN  {Outcome("", Some(q), path, selected, k, Some(q)) :
                  q \in accepted, k \in attempts}
             \cup
             {Outcome("", Some(last), path, selected, max_attempts, Some(last)) :
                  last \in rejected}

\* _generate_new_question: its outcomes
_generate_new_question(s, g, recent, span, path, selected) ==
    IF generate_question_raises(g, None)
    THEN {Outcome("ValueError", None, path, selected, 1, None)}
    ELSE LET generated == generate_question(g, None, span)
             rejected  == {q \in generated : skipped(s, recent, q)}
             accepted  == generated \ rejected
             attempts  == IF rejected = {} THEN {1} ELSE AttemptSamples
         IN  {Outcome("", Some(q), path, selected, k, Some(q)) :
                  q \in accepted, k \in attempts}
             \cup
             {Outcome("", Some(q), path, selected, max_attempts + 1, Some(last)) :
                  q \in generated, last \in rejected}

\* _select_from_srs followed by get_next_question's fallback
review_outcomes(s, g, recent, t, span) ==
    IF available(s, recent) = {}
    THEN _generate_new_question(s, g, recent, span, "fallback", None)
    ELSE
    UNION {LET r == _reconstruct_question(s[k].question_id)
           IN  IF r.exc # "" THEN {Outcome(r.exc, None, "review", Some(k), 0, None)}
               ELSE IF r.value # None
               THEN {Outcome("", r.value, "review", Some(k), 0, None)}
               ELSE _generate_new_question(s, g, recent, span, "fallback", Some(k)) :
           k \in _weighted_box_selection(s, available(s, recent), t)}

\* get_next_question: its outcomes
get_next_question(s, g, recent, t, span) ==
    UNION {IF new THEN _generate_new_question(s, g, recent, span, "new", None)
           ELSE review_outcomes(s, g, recent, t, span) :
           new \in _should_generate_new(s, recent)}

box_after_unclamped(box, correct) == IF correct THEN box + 1 ELSE MIN_BOX

box_after_stepdown(box, correct) ==
    IF correct THEN Min(MAX_BOX, box + 1) ELSE Max(MIN_BOX, box - 1)

\* the box a record moves to
box_after(box, correct) == IF correct THEN Min(MAX_BOX, box + 1) ELSE MIN_BOX

counted_both(st, correct) ==
    IF correct THEN [st EXCEPT !.correct_count = @ + 1]
    ELSE [st EXCEPT !.incorrect_count = @ + 1, !.correct_count = @ + 1]

\* the counts after an answer
counted(st, correct) ==
    IF correct THEN [st EXCEPT !.correct_count = @ + 1]
    ELSE [st EXCEPT !.incorrect_count = @ + 1]

\* the record of question_id, created when absent
get_or_create(s, question_id) ==
    IF question_id \in DOMAIN s THEN s[question_id] ELSE QuestionStats(question_id)

recent_after_poplast(recent, question_id) ==
    LET appended == Append(recent, question_id)
    IN  IF Len(appended) > max_recent THEN SubSeq(appended, 1, max_recent) ELSE appended

\* _recent_questions after append and the pop(0) that keeps it at max_recent
recent_after(recent, question_id) ==
    LET appended == Append(recent, question_id)
    IN  IF Len(appended) > max_recent THEN Tail(appended) ELSE appended

Put(s, k, v) == [x \in DOMAIN s \cup {k} |-> IF x = k THEN v ELSE s[x]]

ACall(op, question_id, correct, g, operation, pending) ==
    [op |-> op, question_id |-> question_id, correct |-> correct,
     grade |-> g, operation |-> operation, pending |-> pending]

record_answer_touches_all(s, question_id, correct, t) ==
    LET st == get_or_create(s, question_id)
        s1 == Put(s, question_id, [counted(st, correct) EXCEPT
                                      !.box = box_after(st.box, correct)])
    IN  [k \in DOMAIN s1 |-> [s1[k] EXCEPT !.last_asked = Some(t)]]

\* record_answer: _stats after it, at clock t
record_answer(s, question_id, correct, t) ==
    LET st == get_or_create(s, question_id)
    IN  Put(s, question_id, [counted(st, correct) EXCEPT
                                !.box = box_after(st.box, correct),
                                !.last_asked = Some(t)])

\* record_answer(question_id, correct)
RecordAnswer(question_id, correct) ==
    /\ stats' = record_answer(stats, question_id, correct, now)
    /\ session_asked' = session_asked \cup {question_id}
    /\ recent_questions' = recent_after(recent_questions, question_id)
    /\ log' = Append(log, question_id)
    /\ answers' = answers + 1
    /\ call' = ACall("record_answer", question_id, correct, grade, None, FALSE)
    /\ result' = NoResult
    /\ UNCHANGED <<grade, now>>
    /\ UNCHANGED handler_vars

ResetSession_clears_stats ==
    /\ stats' = [k \in {} |-> QuestionStats(k)]
    /\ session_asked' = {}
    /\ recent_questions' = <<>>
    /\ log' = <<>>
    /\ call' = ACall("reset_session", <<>>, FALSE, grade, None, FALSE)
    /\ result' = NoResult
    /\ UNCHANGED <<grade, now, answers>>
    /\ UNCHANGED handler_vars

ResetSession_keeps_recent ==
    /\ session_asked' = {}
    /\ log' = <<>>
    /\ call' = ACall("reset_session", <<>>, FALSE, grade, None, FALSE)
    /\ result' = NoResult
    /\ UNCHANGED <<stats, grade, now, answers, recent_questions>>
    /\ UNCHANGED handler_vars

\* reset_session()
ResetSession ==
    /\ session_asked' = {}
    /\ recent_questions' = <<>>
    /\ log' = <<>>
    /\ call' = ACall("reset_session", <<>>, FALSE, grade, None, FALSE)
    /\ result' = NoResult
    /\ UNCHANGED <<stats, grade, now, answers>>
    /\ UNCHANGED handler_vars

NextQuestion_marks_recent ==
    /\ \E out \in get_next_question(stats, grade, recent_questions, now, 0) :
           /\ result' = out
           /\ recent_questions' = IF out.value = None THEN recent_questions
                                  ELSE recent_after(recent_questions,
                                                    out.value[1].question_id)
    /\ call' = ACall("get_next_question", <<>>, FALSE, grade, None, FALSE)
    /\ UNCHANGED <<stats, grade, session_asked, now, log, answers>>
    /\ UNCHANGED handler_vars

\* get_next_question(), its random draws at the ends of their intervals
NextQuestion ==
    /\ \E out \in get_next_question(stats, grade, recent_questions, now, 0) :
           result' = out
    /\ call' = ACall("get_next_question", <<>>, FALSE, grade, None, FALSE)
    /\ UNCHANGED <<stats, grade, session_asked, recent_questions, now, log, answers>>
    /\ UNCHANGED handler_vars

-----------------------------------------------------------------------------
(* The scheduler under record_answer, get_next_question and reset_session *)

add_1_1 == generate_question_id("add", 1, 1)
add_0_0 == generate_question_id("add", 0, 0)
div_5_0 == generate_question_id("div", 5, 0)
add_x_5 == <<"a", "d", "d", "_", "x", "_", "5">>

\* the identifiers record_answer is called with
RecordIds == {add_1_1, add_0_0}

Stored(question_id, box) == [QuestionStats(question_id) EXCEPT !.box = box]

\* the mastery maps a scheduler is constructed with
EmptyStats == [k \in {} |-> Stored(k, 1)]
BoxStats(b) == [k \in {add_1_1} |-> Stored(k, b)]
CorruptStats == [k \in {div_5_0, add_x_5} |-> Stored(k, IF k = div_5_0 THEN 1 ELSE 2)]

InitScenarios ==
    {[grade |-> g, stats |-> EmptyStats] : g \in 1..4}
    \cup {[grade |-> g, stats |-> CorruptStats] : g \in {1, 3}}
    \cup {[grade |-> 1, stats |-> BoxStats(b)] : b \in MIN_BOX..MAX_BOX}

\* no request has been handled and nothing is stored but the items of table
Handlers(table, reqs) ==
    /\ candidates = <<>>
    /\ loaded = <<>>
    /\ persistent_attributes = table
    /\ requests = reqs
    /\ session_attr = <<>>
    /\ request_envelope = <<>>
    /\ response = <<>>

Constructed(g, s) ==
    /\ stats = s
    /\ grade = g
    /\ session_asked = {}
    /\ recent_questions = <<>>
    /\ now = 0
    /\ call = ACall("__init__", <<>>, FALSE, g, None, FALSE)
    /\ result = NoResult
    /\ log = <<>>
    /\ answers = 0
    /\ Handlers(<<>>, <<>>)

Init == \E sc \in InitScenarios : Constructed(sc.grade, sc.stats)

Answer == \E question_id \in RecordIds, correct \in BOOLEAN :
              answers < MaxAnswers /\ RecordAnswer(question_id, correct)

Next == Answer \/ NextQuestion \/ ResetSession

Spec == Init /\ [][Next]_vars

-----------------------------------------------------------------------------
(* The recency list under record_answer and reset_session *)

InitFifo == Constructed(1, EmptyStats)

AnswerFifo == \E question_id \in RecordIds, correct \in BOOLEAN :
                  answers < MaxFifoAnswers /\ RecordAnswer(question_id, correct)

NextFifo == AnswerFifo \/ ResetSession

SpecFifo == InitFifo /\ [][NextFifo]_vars

-----------------------------------------------------------------------------
(* The generator and the reconstruction as functions of their inputs *)

\* a call about to be made on a fresh scheduler
Calling(c) ==
    /\ stats = EmptyStats
    /\ grade = 1
    /\ session_asked = {}
    /\ recent_questions = <<>>
    /\ now = 0
    /\ call = c
    /\ result = NoResult
    /\ log = <<>>
    /\ answers = 0
    /\ Handlers(<<>>, <<>>)

GenCalls ==
    {ACall("generate_question", <<>>, FALSE, g, operation, TRUE) :
         g \in 0..5, operation \in {None} \cup {Some(op) : op \in Operation}}

InitGen == \E c \in GenCalls : Calling(c)

\* generate_question(grade, operation)
Generate ==
    /\ call.op = "generate_question"
    /\ call.pending
    /\ IF generate_question_raises(call.grade, call.operation)
       THEN result' = Outcome("ValueError", None, "", None, 0, None)
       ELSE \E q \in generate_question(call.grade, call.operation, GenSpan) :
                result' = Outcome("", Some(q), "", None, 0, None)
    /\ call' = [call EXCEPT !.pending = FALSE]
    /\ UNCHANGED <<stats, grade, session_asked, recent_questions, now, log, answers>>
    /\ UNCHANGED handler_vars

NextGen == Generate

SpecGen == InitGen /\ [][NextGen]_vars

\* the fields identifiers are assembled from
FieldPool ==
    {<<"a", "d", "d">>, <<"d", "i", "v">>, <<"a", "d">>, <<>>,
     <<"5">>, <<"0">>, <<"-", "2">>, <<" ", "7">>, <<"x">>}

\* "_".join(fields)
RECURSIVE join(_)
join(fields) == IF Len(fields) = 1 THEN fields[1]
                ELSE fields[1] \o <<"_">> \o join(Tail(fields))

ReconIds == {join(fs) : fs \in UNION {[1..n -> FieldPool] : n \in 1..MaxFields}}

InitRecon == \E question_id \in ReconIds :
                 Calling(ACall("_reconstruct_question", question_id, FALSE, 1, None, TRUE))

\* _reconstruct_question(question_id)
Reconstruct ==
    /\ call.op = "_reconstruct_question"
    /\ call.pending
    /\ LET r == _reconstruct_question(call.question_id)
       IN  result' = Outcome(r.exc, r.value, "", None, 0, None)
    /\ call' = [call EXCEPT !.pending = FALSE]
    /\ UNCHANGED <<stats, grade, session_asked, recent_questions, now, log, answers>>
    /\ UNCHANGED handler_vars

NextRecon == Reconstruct

SpecRecon == InitRecon /\ [][NextRecon]_vars

-----------------------------------------------------------------------------
(* Properties *)

\* a record_answer call has just been made (a step of the call)
Recorded == call'.op = "record_answer" /\ answers' = answers + 1

\* C1: a record in box B moves to box min(5, B+1) on a correct answer and to
\* box 1 on an incorrect answer, whatever B is.
C1_BoxTransition ==
    [][(Recorded /\ call'.question_id \in DOMAIN stats) =>
          LET B == stats[call'.question_id].box
          IN  stats'[call'.question_id].box =
                  IF call'.correct THEN (IF B + 1 < 5 THEN B + 1 ELSE 5) ELSE 1]_vars

\* a correct answer was recorded for a record that stays in the top box
C1_Witness ==
    /\ call.op = "record_answer"
    /\ call.correct
    /\ stats[call.question_id].box = 5
    /\ stats[call.question_id].correct_count = 1

\* C2: whatever record_answer, get_next_question and reset_session calls are
\* made on a scheduler constructed with boxes in 1..5, every record of the
\* mastery map has its box in 1..5.
C2_BoxInRange == \A k \in DOMAIN stats : stats[k].box \in 1..5

\* a question was asked for after answers took a record to box 5
C2_Witness ==
    /\ call.op = "get_next_question"
    /\ answers = MaxAnswers
    /\ \E k \in DOMAIN stats : stats[k].box = 5 /\ stats[k].correct_count = MaxAnswers

\* C3: record_answer creates the record of an absent identifier at box 1 with
\* both counts 0 and then applies the answer; every call adds exactly 1 to
\* exactly one of correct_count and incorrect_count.
C3_CountsAndCreation ==
    [][Recorded =>
          LET id  == call'.question_id
              had == id \in DOMAIN stats
              cc  == IF had THEN stats[id].correct_count ELSE 0
              ic  == IF had THEN stats[id].incorrect_count ELSE 0
          IN  /\ id \in DOMAIN stats'
              /\ stats'[id].correct_count = cc + (IF call'.correct THEN 1 ELSE 0)
              /\ stats'[id].incorrect_count = ic + (IF call'.correct THEN 0 ELSE 1)
              /\ ~had => stats'[id].box = (IF call'.correct THEN 2 ELSE 1)]_vars

\* a correct then an incorrect answer on one identifier: 1 / 1 / box 1
C3_Witness ==
    /\ call.op = "record_answer"
    /\ ~call.correct
    /\ answers = 2
    /\ log = <<call.question_id, call.question_id>>
    /\ stats[call.question_id].correct_count = 1
    /\ stats[call.question_id].incorrect_count = 1
    /\ stats[call.question_id].box = 1

\* C4: the recency list holds the identifiers of the last min(n, 5) answers
\* recorded since construction or the last reset_session, oldest first, and
\* never more than 5.
C4_RecencyFifo ==
    LET n == Len(log)
        m == IF n < 5 THEN n ELSE 5
    IN  /\ Len(recent_questions) <= 5
        /\ recent_questions = SubSeq(log, n - m + 1, n)

\* a sixth answer evicted the oldest identifier, which is no longer listed
C4_Witness ==
    /\ Len(log) = 6
    /\ Len(recent_questions) = 5
    /\ log[1] \notin SeqToSet(recent_questions)

\* get_next_question returned a question
Asked == call.op = "get_next_question" /\ result.exc = "" /\ result.value # None

\* C5: a question returned from the review path is a key of the mastery map
\* and is not in the recency list.
C5_ReviewNotRecent ==
    (Asked /\ result.path = "review") =>
        /\ result.value[1].question_id \in DOMAIN stats
        /\ result.value[1].question_id \notin SeqToSet(recent_questions)

\* a review was returned while another mastery identifier was suppressed
C5_Witness ==
    /\ Asked
    /\ result.path = "review"
    /\ \E k \in DOMAIN stats : k \in SeqToSet(recent_questions)

\* every attempt of the retry loop was rejected: so was its last candidate
Exhausted ==
    /\ Asked
    /\ result.last_candidate # None
    /\ skipped(stats, recent_questions, result.last_candidate[1])

\* C6 as stated: after 20 rejected attempts the 20th candidate is returned
\* and no further generator call is made.
C6_Original ==
    Exhausted => (result.value = result.last_candidate /\ result.calls = 20)

\* C6: after 20 rejected attempts get_next_question makes a 21st generator
\* call and returns what that call produces, whether or not the loop would
\* have rejected it.
C6_FallbackGenerates ==
    Exhausted => /\ result.calls = 21
                 /\ result.value[1] \in generate_question(grade, None, 0)

\* the budget was exhausted and the question returned is not the 20th candidate
C6_Witness == Exhausted /\ result.value # result.last_candidate

\* C7: at a grade in 1..4 get_next_question returns a question and raises
\* nothing, whatever the mastery map holds; when the identifier selected for
\* review cannot be reconstructed the question is a generated one.
C7_AlwaysAQuestion ==
    (call.op = "get_next_question" /\ grade \in 1..4) =>
        /\ result.exc = ""
        /\ result.value # None
        /\ (result.selected # None
            /\ _reconstruct_question(stats[result.selected[1]].question_id).value = None)
           => /\ result.path = "fallback"
              /\ result.calls >= 1
              /\ result.value[1] \in generate_question(grade, None, 0)

\* an identifier that does not parse was selected and a generated question returned
C7_Witness ==
    /\ Asked
    /\ result.selected = Some(add_x_5)
    /\ result.path = "fallback"

\* the identifier names a division by zero
DivisionByZeroId(question_id) ==
    LET parts == split(question_id)
    IN  /\ Len(parts) = 3
        /\ parts[1] = OpChars("div")
        /\ IsInt(parts[2])
        /\ IsInt(parts[3])
        /\ int(parts[3]) = 0

\* a division by zero was selected for review
ZeroSelected ==
    /\ call.op = "get_next_question"
    /\ result.selected # None
    /\ DivisionByZeroId(stats[result.selected[1]].question_id)

\* C8 as stated: a division identifier with second operand 0 is a
\* reconstruction failure, so the scheduler falls back to a generated question.
C8_Original ==
    ZeroSelected => (result.exc = "" /\ result.path = "fallback")

\* C8: reconstructing a division identifier with second operand 0 raises
\* nothing and yields a question with result 0, which the scheduler returns
\* as the review.
C8_ZeroDivisorAnswersZero ==
    ZeroSelected =>
        /\ result.exc = ""
        /\ result.path = "review"
        /\ result.value # None
        /\ result.value[1].question_id = stats[result.selected[1]].question_id
        /\ result.value[1].operation = "div"
        /\ result.value[1].operand2 = 0
        /\ result.value[1].correct_answer = 0

\* div_5_0 was selected and returned as the review
C8_Witness ==
    /\ ZeroSelected
    /\ result.selected = Some(div_5_0)
    /\ result.value # None
    /\ result.value[1].operand1 = 5

\* the identifier has not exactly 3 fields, or an unknown first field, or a
\* second or third field that is no integer
Malformed(question_id) ==
    LET parts == split(question_id)
    IN  \/ Len(parts) # 3
        \/ parts[1] \notin {OpChars(op) : op \in Operation}
        \/ ~IsInt(parts[2])
        \/ ~IsInt(parts[3])

ReconstructReturned == call.op = "_reconstruct_question" /\ ~call.pending

\* C9: _reconstruct_question returns None and raises nothing for every
\* malformed identifier.
C9_MalformedIsNone ==
    (ReconstructReturned /\ Malformed(call.question_id)) =>
        (result.exc = "" /\ result.value = None)

\* a three-field identifier with a known operation and a non-integer operand
C9_Witness ==
    /\ ReconstructReturned
    /\ Len(split(call.question_id)) = 3
    /\ split(call.question_id)[1] = OpChars("add")
    /\ ~IsInt(split(call.question_id)[2])
    /\ IsInt(split(call.question_id)[3])
    /\ result.value = None

GenerateReturned ==
    call.op = "generate_question" /\ ~call.pending /\ result.exc = ""

\* C10: reconstructing the identifier of a generated question yields the same
\* identifier, operands, operation and correct result; for a division the
\* floor of operand1 / operand2 is the generated quotient.
C10_RoundTrip ==
    GenerateReturned =>
        LET q == result.value[1]
            r == _reconstruct_question(q.question_id)
        IN  /\ r.exc = ""
            /\ r.value # None
            /\ r.value[1].question_id = q.question_id
            /\ r.value[1].operand1 = q.operand1
            /\ r.value[1].operand2 = q.operand2
            /\ r.value[1].operation = q.operation
            /\ r.value[1].correct_answer = q.correct_answer
            /\ q.operation = "div" =>
                   FloorDiv(q.operand1, q.operand2) = q.correct_answer

\* a division with a three-digit dividend and a two-digit divisor was generated
C10_Witness ==
    /\ GenerateReturned
    /\ result.value[1].operation = "div"
    /\ result.value[1].operand1 >= 100
    /\ result.value[1].operand2 >= 10

-----------------------------------------------------------------------------
(* The scheduler constructed with a grade outside GRADE_CONFIGS *)

InitGrade == \E g \in {0, 5}, s \in {EmptyStats, BoxStats(1), BoxStats(5), CorruptStats} :
                 Constructed(g, s)

NextGrade == Answer \/ NextQuestion \/ ResetSession

SpecGrade == InitGrade /\ [][NextGrade]_vars

-----------------------------------------------------------------------------
(* Properties of the generator *)

\* generate_question returned a question of this operation
Generated(op) == GenerateReturned /\ result.value[1].operation = op

\* the inclusive range of the grade the call was made for
InGradeRange(x) ==
    /\ x >= GRADE_CONFIGS[call.grade].number_range[1]
    /\ x <= GRADE_CONFIGS[call.grade].number_range[2]

\* the grade's configured table set
GradeTables == SeqToSet(GRADE_CONFIGS[call.grade].multiplication_tables)

\* C11: every generated addition has operand1, operand2 and result inside
\* the grade's range, with result = operand1 + operand2.
C11_AdditionInRange ==
    Generated("add") =>
        LET q == result.value[1]
        IN  /\ InGradeRange(q.operand1)
            /\ InGradeRange(q.operand2)
            /\ InGradeRange(q.correct_answer)
            /\ q.correct_answer = q.operand1 + q.operand2

\* C12: every generated subtraction has operand2 <= operand1, result =
\* operand1 - operand2 >= 0 and both operands inside the grade's range.
C12_SubtractionNonNegative ==
    Generated("sub") =>
        LET q == result.value[1]
        IN  /\ q.operand2 <= q.operand1
            /\ q.correct_answer = q.operand1 - q.operand2
            /\ q.correct_answer >= 0
            /\ InGradeRange(q.operand1)
            /\ InGradeRange(q.operand2)

\* a subtraction of equal operands at the top of the range was generated
C12_Witness ==
    /\ Generated("sub")
    /\ result.value[1].operand1 = GRADE_CONFIGS[call.grade].number_range[2]
    /\ result.value[1].operand2 = result.value[1].operand1
    /\ result.value[1].correct_answer = 0

\* C13: every generated multiplication has one operand in the grade's table
\* set and the other in 1..10, in either order, with result = operand1 * operand2.
C13_MultiplicationTables ==
    Generated("mul") =>
        LET q == result.value[1]
        IN  /\ \/ q.operand1 \in GradeTables /\ q.operand2 \in 1..10
               \/ q.operand2 \in GradeTables /\ q.operand1 \in 1..10
            /\ q.correct_answer = q.operand1 * q.operand2

\* a multiplication whose second operand is outside 1..10 (a table of grade 4)
C13_Witness ==
    /\ Generated("mul")
    /\ result.value[1].operand2 = 12
    /\ result.value[1].operand1 = 10
    /\ result.value[1].correct_answer = 120

\* C14: every generated division has a non-zero divisor from the grade's
\* table set, no remainder, and result = operand1 / operand2 in 1..10.
C14_DivisionClean ==
    Generated("div") =>
        LET q == result.value[1]
        IN  /\ q.operand2 # 0
            /\ q.operand2 \in GradeTables
            /\ q.operand1 % q.operand2 = 0
            /\ q.correct_answer * q.operand2 = q.operand1
            /\ q.correct_answer \in 1..10

\* a division by a divisor above 1 with a quotient above 1 was generated
C14_Witness ==
    /\ Generated("div")
    /\ result.value[1].operand2 = 9
    /\ result.value[1].correct_answer = 10
    /\ result.value[1].operand1 = 90

GenerateDone == call.op = "generate_question" /\ ~call.pending

\* the operation given is legal for the grade given
LegalOperation ==
    /\ call.grade \in 1..4
    /\ call.operation # None
    /\ call.operation[1] \in SeqToSet(GRADE_CONFIGS[call.grade].operations)

\* C15: generate_question raises and returns nothing when the grade is
\* outside 1..4 or the operation given is not legal for the grade; with no
\* operation given the question's operation is legal for the grade.
C15_InvalidArgumentsRaise ==
    GenerateDone =>
        /\ (call.grade \notin 1..4 \/ (call.operation # None /\ ~LegalOperation))
               => (result.exc = "ValueError" /\ result.value = None)
        /\ (call.grade \in 1..4 /\ call.operation = None)
               => /\ result.exc = ""
                  /\ result.value # None
                  /\ result.value[1].operation \in
                         SeqToSet(GRADE_CONFIGS[call.grade].operations)

\* a division was asked for at grade 2, where it is not legal
C15_Witness ==
    /\ GenerateDone
    /\ call.grade = 2
    /\ call.operation = Some("div")
    /\ result.exc = "ValueError"

\* C16: the legal operations of grade 1 are exactly addition and
\* subtraction: a subtraction asked for at grade 1 is generated, and
\* multiplication and division are rejected.
C16_Grade1Operations ==
    (GenerateDone /\ call.grade = 1) =>
        /\ SeqToSet(GRADE_CONFIGS[1].operations) = {"add", "sub"}
        /\ call.operation = Some("sub")
               => /\ result.exc = ""
                  /\ result.value # None
                  /\ result.value[1].operation = "sub"
        /\ call.operation \in {Some("mul"), Some("div")}
               => result.exc = "ValueError"

-----------------------------------------------------------------------------
(* Properties of the scheduler *)

\* C17: with a grade outside 1..4 every get_next_question call fails with
\* the unsupported-grade error and returns no question.
C17_InvalidGradeFails ==
    (call.op = "get_next_question" /\ grade \notin 1..4) =>
        (result.exc = "ValueError" /\ result.value = None)

\* C18: reset_session empties the session-asked set and the recency list
\* and leaves the mastery map and the grade unchanged.
C18_ResetFrame ==
    [][call'.op = "reset_session" =>
          /\ session_asked' = {}
          /\ recent_questions' = <<>>
          /\ stats' = stats
          /\ grade' = grade]_vars

\* the session was reset after answers had been recorded
C18_Witness ==
    /\ call.op = "reset_session"
    /\ answers = MaxAnswers
    /\ DOMAIN stats # {}
    /\ session_asked = {}
    /\ recent_questions = <<>>

\* the mastery identifiers that are outside the recency list
Reviewable == {k \in DOMAIN stats : \A i \in 1..Len(recent_questions) : recent_questions[i] # k}

\* C19: get_next_question takes the new-fact path when the mastery map is
\* empty or every mastery identifier is in the recency list; it reviews only
\* when some mastery identifier is outside the recency list.
C19_NewOrReview ==
    call.op = "get_next_question" =>
        /\ Reviewable = {} => (result.path = "new" /\ result.selected = None)
        /\ (result.path # "new" \/ result.selected # None) => Reviewable # {}

\* every mastery identifier is in the recency list and a new fact was generated
C19_Witness ==
    /\ Asked
    /\ DOMAIN stats # {}
    /\ Reviewable = {}
    /\ result.path = "new"

\* C20: a question the new-fact path returns before its 20 attempts are
\* used up is not in the recency list and is either absent from the mastery
\* map or in a box of at least 3.
C20_AcceptedBeforeExhaustion ==
    (Asked /\ result.path \in {"new", "fallback"} /\ result.calls <= 20) =>
        LET id == result.value[1].question_id
        IN  /\ \A i \in 1..Len(recent_questions) : recent_questions[i] # id
            /\ id \notin DOMAIN stats \/ stats[id].box >= 3

\* a seen fact in box 3 or above was accepted while another was suppressed
C20_Witness ==
    /\ Asked
    /\ result.path = "new"
    /\ result.calls <= 20
    /\ result.value[1].question_id \in DOMAIN stats
    /\ stats[result.value[1].question_id].box >= 3
    /\ recent_questions # <<>>

-----------------------------------------------------------------------------
(* Termination of the retry loops *)

\* C21: at a grade in 1..4 get_next_question hands back a question after at
\* most max_attempts + 1 generator calls, also when every candidate of the
\* retry loop was in the recency list or a seen fact of box 1 or 2.
C21_BoundedGeneration ==
    (call.op = "get_next_question" /\ grade \in 1..4) =>
        /\ result.exc = ""
        /\ result.value # None
        /\ result.calls \in 0..(max_attempts + 1)
        /\ Exhausted => result.calls = max_attempts + 1

\* every attempt was rejected and the question handed back is itself one
\* the loop would have rejected
C21_Witness ==
    /\ Exhausted
    /\ result.calls = max_attempts + 1
    /\ skipped(stats, recent_questions, result.value[1])

-----------------------------------------------------------------------------
(* alexa/srs.py: get_weak_areas and get_strong_areas *)

\* An accuracy total_correct / total_attempts is kept as the pair
\* <<total_correct, total_attempts>>.  The float quotient compares with 0.7,
\* with 0.8 and with another quotient as the fractions do: the division is
\* correctly rounded, so it differs from the fraction by less than any gap
\* between fractions whose denominators stay far below 2^50.
RECURSIVE sum(_, _)
sum(f, keys) == IF keys = {} THEN 0
                ELSE LET k == CHOOSE x \in keys : TRUE
                     IN  f[k] + sum(f, keys \ {k})

\* op_accuracy: operation prefix -> <<total_correct, total_attempts>> over the
\* records the loop does not skip
op_accuracy(s, min_attempts) ==
    LET kept    == {k \in DOMAIN s : total_attempts(s[k]) >= min_attempts}
        of(op)  == {k \in kept : split(k)[1] = op}
        tc(op)  == sum([k \in of(op) |-> s[k].correct_count], of(op))
        ta(op)  == sum([k \in of(op) |-> total_attempts(s[k])], of(op))
    IN  [op \in {o \in {split(k)[1] : k \in kept} : ta(o) > 0} |-> <<tc(op), ta(op)>>]

\* sorted(op_accuracy.items(), key=...): the orders the stable sort can give;
\* operations of equal accuracy keep the dict's order, which the map leaves open
sorted(acc, descending) ==
    LET n == Cardinality(DOMAIN acc)
        before(a, b) == IF descending THEN b[1] * a[2] <= a[1] * b[2]
                        ELSE a[1] * b[2] <= b[1] * a[2]
    IN  {seq \in [1..n -> DOMAIN acc] :
            /\ \A i, j \in 1..n : i # j => seq[i] # seq[j]
            /\ \A i \in 1..(n - 1) : before(acc[seq[i]], acc[seq[i + 1]])}

\* op_names.get(op, op) of get_weak_areas
weak_op_names(op) ==
    CASE op = OpChars("add") -> <<"A", "d", "d", "i", "t", "i", "o", "n">>
      [] op = OpChars("sub") -> <<"S", "u", "b", "t", "r", "a", "k", "t", "i", "o", "n">>
      [] op = OpChars("mul") ->
             <<"M", "u", "l", "t", "i", "p", "l", "i", "k", "a", "t", "i", "o", "n">>
      [] op = OpChars("div") -> <<"D", "i", "v", "i", "s", "i", "o", "n">>
      [] OTHER -> op

\* op_names.get(op, op) of get_strong_areas
strong_op_names(op) ==
    CASE op = OpChars("add") ->
             <<"P", "l", "u", "s", "-", "A", "u", "f", "g", "a", "b", "e", "n">>
      [] op = OpChars("sub") ->
             <<"M", "i", "n", "u", "s", "-", "A", "u", "f", "g", "a", "b", "e", "n">>
      [] op = OpChars("mul") ->
             <<"M", "a", "l", "-", "A", "u", "f", "g", "a", "b", "e", "n">>
      [] op = OpChars("div") ->
             <<"G", "e", "t", "e", "i", "l", "t", "-", "A", "u", "f", "g", "a", "b", "e", "n">>
      [] OTHER -> op

get_weak_areas_inclusive(s) ==
    LET acc == op_accuracy(s, 1)
        weak(op) == 10 * acc[op][1] <= 7 * acc[op][2]
    IN  {[i \in 1..Len(SelectSeq(seq, weak)) |-> weak_op_names(SelectSeq(seq, weak)[i])] :
             seq \in sorted(acc, FALSE)}

\* get_weak_areas: the lists it can return
get_weak_areas(s) ==
    LET acc == op_accuracy(s, 1)
        weak(op) == 10 * acc[op][1] < 7 * acc[op][2]
    IN  {[i \in 1..Len(SelectSeq(seq, weak)) |-> weak_op_names(SelectSeq(seq, weak)[i])] :
             seq \in sorted(acc, FALSE)}

get_strong_areas_any_attempts(s) ==
    LET acc == op_accuracy(s, 1)
        strong(op) == 10 * acc[op][1] >= 8 * acc[op][2]
    IN  {[i \in 1..Len(SelectSeq(seq, strong)) |-> strong_op_names(SelectSeq(seq, strong)[i])] :
             seq \in sorted(acc, TRUE)}

\* get_strong_areas: the lists it can return
get_strong_areas(s) ==
    LET acc == op_accuracy(s, 3)
        strong(op) == 10 * acc[op][1] >= 8 * acc[op][2]
    IN  {[i \in 1..Len(SelectSeq(seq, strong)) |-> strong_op_names(SelectSeq(seq, strong)[i])] :
             seq \in sorted(acc, TRUE)}

\* get_weak_areas()
WeakAreas ==
    /\ \E areas \in get_weak_areas(stats) :
           result' = Outcome("", areas, "", None, 0, None)
    /\ call' = ACall("get_weak_areas", <<>>, FALSE, grade, None, FALSE)
    /\ UNCHANGED <<stats, grade, session_asked, recent_questions, now, log, answers>>
    /\ UNCHANGED handler_vars

\* get_strong_areas()
StrongAreas ==
    /\ \E areas \in get_strong_areas(stats) :
           result' = Outcome("", areas, "", None, 0, None)
    /\ call' = ACall("get_strong_areas", <<>>, FALSE, grade, None, FALSE)
    /\ UNCHANGED <<stats, grade, session_asked, recent_questions, now, log, answers>>
    /\ UNCHANGED handler_vars

\* correct and incorrect answers of one record in SpecAreas
MaxCount == 4

sub_1_1 == generate_question_id("sub", 1, 1)

\* the record of question_id after `incorrect` wrong and then `correct` right answers
Answered(question_id, correct, incorrect) ==
    [question_id     |-> question_id,
     correct_count   |-> correct,
     incorrect_count |-> incorrect,
     last_asked      |-> IF correct + incorrect = 0 THEN None ELSE Some(0),
     box             |-> Min(MAX_BOX, MIN_BOX + correct)]

\* mastery maps of two additions, each with up to MaxCount right and wrong
\* answers, and one subtraction: <<correct, incorrect>> of the subtraction
AreaMaps ==
    {[k \in {add_1_1, add_0_0, sub_1_1} |->
         IF k = sub_1_1 THEN Answered(k, sub[1], sub[2]) ELSE Answered(k, c[k], i[k])] :
         c \in [{add_1_1, add_0_0} -> 0..MaxCount],
         i \in [{add_1_1, add_0_0} -> 0..MaxCount],
         sub \in {<<0, 0>>, <<1, 1>>, <<1, 2>>, <<3, 0>>, <<4, 1>>}}

InitAreas == \E s \in AreaMaps : Constructed(1, s)

NextAreas == WeakAreas \/ StrongAreas

SpecAreas == InitAreas /\ [][NextAreas]_vars

\* <<total correct, total attempts>> of the records of operation op that
\* have at least min_attempts attempts
Tally(op, min_attempts) ==
    LET of == {k \in DOMAIN stats : /\ split(k)[1] = op
                                    /\ total_attempts(stats[k]) >= min_attempts}
    IN  <<sum([k \in of |-> stats[k].correct_count], of),
          sum([k \in of |-> stats[k].correct_count + stats[k].incorrect_count], of)>>

Prefixes == {split(k)[1] : k \in DOMAIN stats}

\* C22: get_weak_areas returns, once each, exactly the operations whose
\* records with at least one attempt have total correct / total attempts
\* strictly below 0.7, weakest first.
C22_WeakAreas ==
    call.op = "get_weak_areas" =>
        LET weak == {op \in Prefixes : /\ Tally(op, 1)[2] > 0
                                       /\ 10 * Tally(op, 1)[1] < 7 * Tally(op, 1)[2]}
            areas == result.value
        IN  /\ Len(areas) = Cardinality(weak)
            /\ SeqToSet(areas) = {weak_op_names(op) : op \in weak}
            /\ \A i \in 1..(Len(areas) - 1) :
                   \E a, b \in weak :
                       /\ areas[i] = weak_op_names(a)
                       /\ areas[i + 1] = weak_op_names(b)
                       /\ Tally(a, 1)[1] * Tally(b, 1)[2] <= Tally(b, 1)[1] * Tally(a, 1)[2]

\* additions are at exactly 7 of 10 over two records and are left out, while
\* the weaker subtraction is reported
C22_Witness ==
    /\ call.op = "get_weak_areas"
    /\ Tally(OpChars("add"), 1) = <<7, 10>>
    /\ stats[add_1_1].correct_count # 0 /\ stats[add_0_0].correct_count # 0
    /\ result.value = <<weak_op_names(OpChars("sub"))>>

\* C23: get_strong_areas returns, once each, exactly the operations whose
\* records with at least three attempts have total correct / total attempts
\* of at least 0.8, strongest first.
C23_StrongAreas ==
    call.op = "get_strong_areas" =>
        LET strong == {op \in Prefixes : /\ Tally(op, 3)[2] > 0
                                         /\ 10 * Tally(op, 3)[1] >= 8 * Tally(op, 3)[2]}
            areas == result.value
        IN  /\ Len(areas) = Cardinality(strong)
            /\ SeqToSet(areas) = {strong_op_names(op) : op \in strong}
            /\ \A i \in 1..(Len(areas) - 1) :
                   \E a, b \in strong :
                       /\ areas[i] = strong_op_names(a)
                       /\ areas[i + 1] = strong_op_names(b)
                       /\ Tally(b, 3)[1] * Tally(a, 3)[2] <= Tally(a, 3)[1] * Tally(b, 3)[2]

\* additions are at exactly 4 of 5 once the record with two attempts is left
\* out, and are reported after the perfect subtraction
C23_Witness ==
    /\ call.op = "get_strong_areas"
    /\ Tally(OpChars("add"), 3) = <<4, 5>>
    /\ Tally(OpChars("add"), 1) = <<4, 7>>
    /\ result.value = <<strong_op_names(OpChars("sub")), strong_op_names(OpChars("add"))>>

-----------------------------------------------------------------------------
(* The selection weights of _weighted_box_selection *)

\* _weighted_box_selection(by_box) for the records that are not recent
WeightedBoxSelection ==
    /\ available(stats, recent_questions) # {}
    /\ candidates' = [k \in available(stats, recent_questions) |-> final_weight(stats[k], now)]
    /\ \E k \in _weighted_box_selection(stats, available(stats, recent_questions), now) :
           result' = Outcome("", None, "review", Some(k), 0, None)
    /\ call' = ACall("_weighted_box_selection", <<>>, FALSE, grade, None, FALSE)
    /\ UNCHANGED <<stats, grade, session_asked, recent_questions, now, log, answers>>
    /\ UNCHANGED <<loaded, persistent_attributes, requests, session_attr,
                   request_envelope, response>>

\* a record last asked `hours` before the scheduler was constructed
AskedAgo(question_id, box, hours) ==
    [Stored(question_id, box) EXCEPT !.last_asked = Some(0 - hours)]

\* two records of any boxes and recencies, and the maps of one never-asked
\* record of any box beside four never-asked records of box 5
WeightMaps ==
    LET records(k) == {Stored(k, b) : b \in MIN_BOX..MAX_BOX}
                      \cup {AskedAgo(k, b, h) : b \in MIN_BOX..MAX_BOX,
                                                h \in {0, 1, 23, 24, 100, 168, 200}}
    IN  {[k \in {add_1_1, add_0_0} |-> IF k = add_1_1 THEN r1 ELSE r2] :
             r1 \in records(add_1_1), r2 \in records(add_0_0)}
        \cup
        {[k \in {generate_question_id("add", n, n) : n \in 1..5} |->
             Stored(k, IF k = add_1_1 THEN b ELSE MAX_BOX)] : b \in MIN_BOX..MAX_BOX}

InitWeights == \E s \in WeightMaps : Constructed(1, s)

NextWeights == WeightedBoxSelection

SpecWeights == InitWeights /\ [][NextWeights]_vars

\* one never-asked record of box 1 beside four never-asked records of box 5
OneLowFourHigh ==
    /\ Cardinality(DOMAIN stats) = 5
    /\ \A k \in DOMAIN stats :
           /\ stats[k].last_asked = None
           /\ stats[k].box = IF k = add_1_1 THEN MIN_BOX ELSE MAX_BOX

\* C24: the weight of a candidate of box b is 1/2^(b-1) of the weight a
\* box-1 candidate of the same recency has; of two candidates with the same
\* recency factor the one in the lower box weighs strictly more; one
\* never-asked box-1 record beside four never-asked box-5 records holds more
\* than 30% of the total weight.
C24_BoxWeights ==
    call.op = "_weighted_box_selection" =>
        /\ DOMAIN candidates = DOMAIN stats
        /\ \A k \in DOMAIN candidates :
               /\ stats[k].box \in MIN_BOX..MAX_BOX
               /\ candidates[k] * 2 ^ (stats[k].box - 1) = 160 * _time_factor(stats[k], now)
        /\ \A a, b \in DOMAIN candidates :
               (/\ _time_factor(stats[a], now) = _time_factor(stats[b], now)
                /\ stats[a].box < stats[b].box) => candidates[a] > candidates[b]
        /\ OneLowFourHigh =>
               100 * candidates[add_1_1] > 30 * sum(candidates, DOMAIN candidates)

\* the box-1 record holds four fifths of the weight and a box-5 record was drawn
C24_Witness ==
    /\ call.op = "_weighted_box_selection"
    /\ OneLowFourHigh
    /\ 5 * candidates[add_1_1] = 4 * sum(candidates, DOMAIN candidates)
    /\ result.selected # Some(add_1_1)

-----------------------------------------------------------------------------
(* The mastery map under every operation of the scheduler *)

InitProfile == \E s \in {EmptyStats, BoxStats(MIN_BOX), CorruptStats} : Constructed(1, s)

NextProfile == Answer \/ NextQuestion \/ ResetSession \/ WeakAreas \/ StrongAreas

SpecProfile == InitProfile /\ [][NextProfile]_vars

\* C25: no step of get_next_question, record_answer, reset_session,
\* get_weak_areas or get_strong_areas removes a key of the mastery map.
C25_KeysOnlyGrow == [][DOMAIN stats \subseteq DOMAIN stats']_vars

\* two records were created and are still there after reset_session
C25_Witness ==
    /\ call.op = "reset_session"
    /\ answers = 2
    /\ log = <<>>
    /\ RecordIds \subseteq DOMAIN stats

-----------------------------------------------------------------------------
(* alexa/models.py and alexa/srs.py: serialization of the mastery map *)

\* A dict whose keys may be missing is a record of Optional fields: <<>> is a
\* missing key.  A stored last_asked is null (<<None>>) or a string (<<Some(s)>>).

\* datetime.isoformat() on the clock of whole hours: the day, "T", the hour
\* of the day in two digits
isoformat(t) ==
    LET hour == t % 24
    IN  NatStr(t \div 24) \o <<"T">> \o <<Digits[(hour \div 10) + 1], Digits[(hour % 10) + 1]>>

\* datetime.fromisoformat(s) for a string on which it succeeds
fromisoformat(s) ==
    LET i == CHOOSE j \in 1..Len(s) : s[j] = "T"
    IN  24 * NatVal(SubSeq(s, 1, i - 1)) + NatVal(SubSeq(s, i + 1, Len(s)))

\* QuestionStats.to_dict
to_dict(st) ==
    [question_id     |-> Some(st.question_id),
     correct_count   |-> Some(st.correct_count),
     incorrect_count |-> Some(st.incorrect_count),
     last_asked      |-> Some(IF st.last_asked # None
                              THEN Some(isoformat(st.last_asked[1])) ELSE None),
     box             |-> Some(st.box)]

from_dict_forgets_time(data) ==
    IF data.question_id = <<>> THEN Raised("KeyError")
    ELSE Returned([question_id     |-> data.question_id[1],
                   correct_count   |-> IF data.correct_count = <<>> THEN 0
                                       ELSE data.correct_count[1],
                   incorrect_count |-> IF data.incorrect_count = <<>> THEN 0
                                       ELSE data.incorrect_count[1],
                   last_asked      |-> None,
                   box             |-> IF data.box = <<>> THEN 1 ELSE data.box[1]])

\* QuestionStats.from_dict: the record, or the exception that escapes
from_dict(data) ==
    LET truthy == /\ data.last_asked # <<>>
                  /\ data.last_asked[1] # None
                  /\ data.last_asked[1][1] # <<>>
        \* datetime.fromisoformat(s) succeeds
        IsIso(s) == \E i \in 2..(Len(s) - 2) :
                        /\ s[i] = "T"
                        /\ Len(s) = i + 2
                        /\ \A j \in (1..Len(s)) \ {i} : s[j] \in DigitChars
                        /\ NatVal(SubSeq(s, i + 1, i + 2)) < 24
    IN  IF truthy /\ ~IsIso(data.last_asked[1][1]) THEN Raised("ValueError")
        ELSE IF data.question_id = <<>> THEN Raised("KeyError")
        ELSE Returned([question_id     |-> data.question_id[1],
                       correct_count   |-> IF data.correct_count = <<>> THEN 0
                                           ELSE data.correct_count[1],
                       incorrect_count |-> IF data.incorrect_count = <<>> THEN 0
                                           ELSE data.incorrect_count[1],
                       last_asked      |-> IF truthy
                                           THEN Some(fromisoformat(data.last_asked[1][1]))
                                           ELSE None,
                       box             |-> IF data.box = <<>> THEN 1 ELSE data.box[1]])

\* export_stats: the lists it can return (the dict's order is left open)
export_stats(s) ==
    {[i \in 1..Cardinality(DOMAIN s) |-> to_dict(s[order[i]])] :
         order \in {o \in [1..Cardinality(DOMAIN s) -> DOMAIN s] :
                        \A i, j \in DOMAIN o : i # j => o[i] # o[j]}}

\* load_stats after its clear(): the map loaded so far and the exception, if
\* any, that from_dict let escape
RECURSIVE load_stats(_, _)
load_stats(sofar, stats_data) ==
    IF stats_data = <<>> THEN [exc |-> "", value |-> sofar]
    ELSE LET r == from_dict(Head(stats_data))
         IN  IF r.exc # "" THEN [exc |-> r.exc, value |-> sofar]
             ELSE load_stats(Put(sofar, r.value.question_id, r.value), Tail(stats_data))

-----------------------------------------------------------------------------
(* alexa/persistence.py *)

\* The stored item of an account is its "players" dict: normalised player
\* name -> player data, a dict with the keys user_profile, question_stats and
\* session_stats, each of which may be missing.

\* str.lower() on ASCII
lower(s) ==
    LET upper == <<"A", "B", "C", "D", "E", "F", "G", "H", "I", "J", "K", "L", "M",
                   "N", "O", "P", "Q", "R", "S", "T", "U", "V", "W", "X", "Y", "Z">>
        letters == <<"a", "b", "c", "d", "e", "f", "g", "h", "i", "j", "k", "l", "m",
                     "n", "o", "p", "q", "r", "s", "t", "u", "v", "w", "x", "y", "z">>
    IN  [i \in 1..Len(s) |->
            IF \E j \in 1..26 : upper[j] = s[i]
            THEN letters[CHOOSE j \in 1..26 : upper[j] = s[i]] ELSE s[i]]

\* PersistenceManager.__init__: _player_name from the session's current_player
player_name(current_player) ==
    IF current_player = None \/ current_player[1] = <<>> THEN None
    ELSE Some(strip(lower(current_player[1])))

\* attributes_manager.persistent_attributes: the stored item, read once per request
persistent_item(table, user_id) ==
    IF user_id \in DOMAIN table THEN table[user_id] ELSE <<>>

NoPlayerData == [user_profile |-> <<>>, question_stats |-> <<>>, session_stats |-> <<>>]

_get_player_data(attrs, name) ==
    IF name = None \/ name[1] = <<>> THEN NoPlayerData
    ELSE IF name[1] \in DOMAIN attrs THEN attrs[name[1]] ELSE NoPlayerData

_save_player_data(attrs, name, data) ==
    IF name = None \/ name[1] = <<>> THEN attrs ELSE Put(attrs, name[1], data)

\* get_user_profile().grade
profile_grade(attrs, name) ==
    LET player_data == _get_player_data(attrs, name)
    IN  IF player_data.user_profile = <<>> THEN 1 ELSE player_data.user_profile[1].grade

get_question_stats_no_backfill(attrs, name) ==
    LET player_data == _get_player_data(attrs, name)
        stats_data  == IF player_data.question_stats = <<>> THEN <<>>
                       ELSE player_data.question_stats[1]
        raised      == {from_dict(stats_data[k]).exc : k \in DOMAIN stats_data} \ {""}
    IN  [exc   |-> IF raised = {} THEN "" ELSE CHOOSE e \in raised : TRUE,
         value |-> IF raised = {}
                   THEN [k \in DOMAIN stats_data |-> from_dict(stats_data[k]).value]
                   ELSE <<>>,
         attrs |-> attrs]

\* get_question_stats: the map it returns or the exception that escapes, and
\* the attributes it has read, question_id added where it was missing
get_question_stats(attrs, name) ==
    LET player_data == _get_player_data(attrs, name)
        stats_data  == IF player_data.question_stats = <<>> THEN <<>>
                       ELSE player_data.question_stats[1]
        backfilled  == [k \in DOMAIN stats_data |->
                           IF stats_data[k].question_id = <<>>
                           THEN [stats_data[k] EXCEPT !.question_id = Some(k)]
                           ELSE stats_data[k]]
        raised      == {from_dict(backfilled[k]).exc : k \in DOMAIN backfilled} \ {""}
    IN  [exc   |-> IF raised = {} THEN "" ELSE CHOOSE e \in raised : TRUE,
         value |-> IF raised = {}
                   THEN [k \in DOMAIN backfilled |-> from_dict(backfilled[k]).value]
                   ELSE <<>>,
         attrs |-> IF DOMAIN stats_data = {} THEN attrs
                   ELSE _save_player_data(attrs, name,
                            [player_data EXCEPT !.question_stats = Some(backfilled)])]

\* save_question_stats: the attributes after it
save_question_stats(attrs, name, s) ==
    _save_player_data(attrs, name,
        [_get_player_data(attrs, name) EXCEPT
             !.question_stats = Some([k \in DOMAIN s |-> to_dict(s[k])])])

\* get_session_stats: what is stored, or the defaults
get_session_stats(attrs, name) ==
    LET player_data == _get_player_data(attrs, name)
    IN  IF player_data.session_stats = <<>>
        THEN [total_questions |-> 0, total_correct |-> 0, streak_current |-> 0,
              streak_best |-> 0, sessions_count |-> 0, last_session |-> None]
        ELSE player_data.session_stats[1]

\* update_session_stats: the attributes after it, at clock t
update_session_stats(attrs, name, questions_answered, correct_answers, reset_streak, t) ==
    LET s0 == get_session_stats(attrs, name)
        streak_current == IF reset_streak THEN 0 ELSE s0.streak_current + correct_answers
        s1 == [s0 EXCEPT !.total_questions = @ + questions_answered,
                         !.total_correct = @ + correct_answers,
                         !.streak_current = streak_current,
                         !.streak_best = IF streak_current > @ THEN streak_current ELSE @,
                         !.last_session = Some(isoformat(t))]
    IN  _save_player_data(attrs, name,
            [_get_player_data(attrs, name) EXCEPT !.session_stats = Some(s1)])

\* commit: the stored items after it. _dirty is set exactly when a player is
\* current (_save_player_data); the request's whole item is written.
commit(table, user_id, attrs, name) ==
    IF name = None \/ name[1] = <<>> THEN table ELSE Put(table, user_id, attrs)

-----------------------------------------------------------------------------
(* Export and load, and loading what an earlier version stored *)

anna == <<"a", "n", "n", "a">>

\* a request that has read nothing yet: its account, its session's player, and
\* the question its answer is for with the verdict on that answer
Request(user_id, current_player, question_id, correct) ==
    [user_id |-> user_id, current_player |-> current_player, question_id |-> question_id,
     correct |-> correct, attrs |-> None, pc |-> "start"]

\* mastery maps a scheduler can hold: up to two records, each with some
\* counts, box and last_asked
SerialMaps ==
    LET ids == {add_1_1, add_0_0}
        fields == {<<0, 0>>, <<1, 0>>, <<2, 3>>} \X {MIN_BOX, MAX_BOX}
                  \X {None, Some(0), Some(23), Some(24), Some(250)}
    IN  {[k \in keys |-> [question_id     |-> k,
                          correct_count   |-> f[k][1][1],
                          incorrect_count |-> f[k][1][2],
                          last_asked      |-> f[k][3],
                          box             |-> f[k][2]]] :
             keys \in SUBSET ids, f \in [ids -> fields]}

\* the stored items: player anna of account u1 with up to two stored records;
\* any field of a record may be missing, last_asked may be null or empty
StoredTables ==
    LET ids == {add_1_1, add_0_0}
        fields == BOOLEAN \X {<<<<>>, <<>>>>, <<Some(3), Some(1)>>}
                  \X {<<>>, Some(None), Some(Some(<<>>)), Some(Some(isoformat(250)))}
                  \X {<<>>, Some(2)}
        stats_data(keys, f) ==
            [k \in keys |-> [question_id     |-> IF f[k][1] THEN Some(k) ELSE <<>>,
                             correct_count   |-> f[k][2][1],
                             incorrect_count |-> f[k][2][2],
                             last_asked      |-> f[k][3],
                             box             |-> f[k][4]]]
    IN  {[u \in {"u1"} |->
             [n \in {anna} |->
                 [NoPlayerData EXCEPT !.question_stats = Some(stats_data(keys, f))]]] :
             keys \in SUBSET ids, f \in [ids -> fields]}

\* either a scheduler holding a map and nothing stored, or a fresh scheduler
\* and a stored map
InitSerial ==
    \E s \in SerialMaps, table \in StoredTables :
        /\ s = EmptyStats \/ table["u1"][anna].question_stats[1] = EmptyStats
        /\ stats = s
        /\ grade = 1
        /\ session_asked = {}
        /\ recent_questions = <<>>
        /\ now = 0
        /\ call = ACall("__init__", <<>>, FALSE, 1, None, FALSE)
        /\ result = NoResult
        /\ log = <<>>
        /\ answers = 0
        /\ Handlers(table, <<Request("u1", Some(anna), add_1_1, TRUE)>>)

\* export_stats()
ExportStats ==
    /\ call.op = "__init__"
    /\ \E stats_data \in export_stats(stats) :
           result' = Outcome("", stats_data, "", None, 0, None)
    /\ call' = ACall("export_stats", <<>>, FALSE, grade, None, FALSE)
    /\ UNCHANGED <<stats, grade, session_asked, recent_questions, now, log, answers>>
    /\ UNCHANGED handler_vars

\* load_stats(stats_data) on another scheduler, with what export_stats returned
LoadStats ==
    /\ call.op = "export_stats"
    /\ LET r == load_stats(EmptyStats, result.value)
       IN  /\ loaded' = r.value
           /\ result' = Outcome(r.exc, None, "", None, 0, None)
    /\ call' = ACall("load_stats", <<>>, FALSE, grade, None, FALSE)
    /\ UNCHANGED <<stats, grade, session_asked, recent_questions, now, log, answers>>
    /\ UNCHANGED <<candidates, persistent_attributes, requests, session_attr,
                   request_envelope, response>>

\* PersistenceManager.get_question_stats() of the request
GetQuestionStats ==
    /\ call.op = "__init__"
    /\ LET name == player_name(requests[1].current_player)
           r == get_question_stats(
                    persistent_item(persistent_attributes, requests[1].user_id), name)
       IN  /\ requests' = [requests EXCEPT ![1].attrs = Some(r.attrs)]
           /\ loaded' = r.value
           /\ result' = Outcome(r.exc, None, "", None, 0, None)
    /\ call' = ACall("get_question_stats", <<>>, FALSE, grade, None, FALSE)
    /\ UNCHANGED <<stats, grade, session_asked, recent_questions, now, log, answers>>
    /\ UNCHANGED <<candidates, persistent_attributes, session_attr, request_envelope,
                   response>>

NextSerial == ExportStats \/ LoadStats \/ GetQuestionStats

SpecSerial == InitSerial /\ [][NextSerial]_vars

\* C26: a map exported by one scheduler and loaded by another has the same
\* keys and, under each key, the same identifier, counts, box and last_asked;
\* a last_asked of None stays None.
C26_ExportLoadRoundTrip ==
    call.op = "load_stats" =>
        /\ result.exc = ""
        /\ DOMAIN loaded = DOMAIN stats
        /\ \A k \in DOMAIN stats :
               /\ loaded[k].question_id = stats[k].question_id
               /\ loaded[k].correct_count = stats[k].correct_count
               /\ loaded[k].incorrect_count = stats[k].incorrect_count
               /\ loaded[k].box = stats[k].box
               /\ loaded[k].last_asked = stats[k].last_asked

\* two records went through, one never asked and one asked at hour 250
C26_Witness ==
    /\ call.op = "load_stats"
    /\ DOMAIN loaded = {add_1_1, add_0_0}
    /\ loaded[add_1_1].last_asked = None
    /\ loaded[add_0_0].last_asked = Some(250)
    /\ loaded[add_0_0].box = MAX_BOX

\* what is stored for player anna of account u1
StoredStats == persistent_attributes["u1"][anna].question_stats[1]

-----------------------------------------------------------------------------
(* Two answers in flight at once: each request reads the stored item of its
   account once, and writes the whole item back at each commit *)

ben == <<"b", "e", "n">>

\* the answers that can be in flight: account, player, question and verdict
PlayerRequests ==
    {Request(user_id, Some(name), question_id, correct) :
         user_id \in {"u1", "u2"}, name \in {anna, ben},
         question_id \in RecordIds, correct \in BOOLEAN}

InitPlayers ==
    \E first \in PlayerRequests, second \in PlayerRequests :
        /\ stats = EmptyStats
        /\ grade = 1
        /\ session_asked = {}
        /\ recent_questions = <<>>
        /\ now = 0
        /\ call = ACall("__init__", <<>>, FALSE, 1, None, FALSE)
        /\ result = NoResult
        /\ log = <<>>
        /\ answers = 0
        /\ Handlers(<<>>, <<first, second>>)

\* get_srs_from_session up to the attributes manager's fetch of the stored item
LoadPersistentAttributes(i) ==
    /\ requests[i].pc = "start"
    /\ requests' = [requests EXCEPT
           ![i].attrs = Some(persistent_item(persistent_attributes, requests[i].user_id)),
           ![i].pc = "loaded"]
    /\ UNCHANGED <<stats, grade, session_asked, recent_questions, now, call, result, log,
                   answers, candidates, loaded, persistent_attributes, session_attr,
                   request_envelope, response>>

\* the rest of get_srs_from_session, record_answer, and save_srs_state with its commit
SaveSrsState(i) ==
    LET rq    == requests[i]
        name  == player_name(rq.current_player)
        r     == get_question_stats(rq.attrs[1], name)
        s     == record_answer(r.value, rq.question_id, rq.correct, now)
        attrs == save_question_stats(r.attrs, name, s)
    IN  /\ rq.pc = "loaded"
        /\ r.exc = ""
        /\ stats' = s
        /\ recent_questions' = <<rq.question_id>>
        /\ session_asked' = {rq.question_id}
        /\ log' = Append(log, [user_id |-> rq.user_id, player |-> name,
                               question_id |-> rq.question_id, correct |-> rq.correct])
        /\ answers' = answers + 1
        /\ call' = ACall("record_answer", rq.question_id, rq.correct, grade, None, FALSE)
        /\ requests' = [requests EXCEPT ![i].attrs = Some(attrs), ![i].pc = "saved"]
        /\ persistent_attributes' = commit(persistent_attributes, rq.user_id, attrs, name)
        /\ UNCHANGED <<grade, now, result, candidates, loaded, session_attr,
                       request_envelope, response>>

\* update_session_stats and the handler's own commit
UpdateSessionStats(i) ==
    LET rq    == requests[i]
        name  == player_name(rq.current_player)
        attrs == update_session_stats(rq.attrs[1], name, 1, IF rq.correct THEN 1 ELSE 0,
                                      ~rq.correct, now)
    IN  /\ rq.pc = "saved"
        /\ requests' = [requests EXCEPT ![i].attrs = Some(attrs), ![i].pc = "done"]
        /\ persistent_attributes' = commit(persistent_attributes, rq.user_id, attrs, name)
        /\ UNCHANGED <<stats, grade, session_asked, recent_questions, now, call, result,
                       log, answers, candidates, loaded, session_attr, request_envelope,
                       response>>

NextPlayers ==
    \E i \in 1..Len(requests) :
        \/ LoadPersistentAttributes(i)
        \/ SaveSrsState(i)
        \/ UpdateSessionStats(i)

SpecPlayers == InitPlayers /\ [][NextPlayers]_vars

\* the learner a request is for
Learner(rq) == <<rq.user_id, player_name(rq.current_player)>>

\* the mastery map the learner's own record_answer calls produce, in order
RECURSIVE OwnAnswers(_, _)
OwnAnswers(learner, n) ==
    IF n = 0 THEN EmptyStats
    ELSE IF <<log[n].user_id, log[n].player>> = learner
         THEN record_answer(OwnAnswers(learner, n - 1), log[n].question_id,
                            log[n].correct, now)
         ELSE OwnAnswers(learner, n - 1)

\* the mastery map stored for the learner
Persisted(learner) ==
    get_question_stats(persistent_item(persistent_attributes, learner[1]), learner[2]).value

\* C28: when the requests of two different learners have both committed, each
\* learner's stored mastery map is the one its own record_answer calls produce.
C28_LearnersIndependent ==
    (/\ \A i \in 1..Len(requests) : requests[i].pc = "done"
     /\ Learner(requests[1]) # Learner(requests[2]))
        => \A i \in 1..Len(requests) :
               Persisted(Learner(requests[i])) = OwnAnswers(Learner(requests[i]), Len(log))

-----------------------------------------------------------------------------
(* alexa/handlers/quiz.py: one quiz session of account u1. The session state is
   "NONE" or "QUIZ"; a QuizIntent is taken to arrive when no quiz is running. *)

serialize_question(question) ==
    [question_id    |-> question.question_id,
     operand1       |-> question.operand1,
     operand2       |-> question.operand2,
     operation      |-> question.operation,
     correct_answer |-> question.correct_answer]

user_answer_int_or_zero(user_answer) ==
    IF user_answer = None THEN None
    ELSE IF user_answer[1] # <<>> /\ IsInt(user_answer[1]) THEN Some(int(user_answer[1]))
    ELSE Some(0)

user_answer_int_first_digit(user_answer) ==
    IF user_answer = None \/ user_answer[1] = <<>> THEN None
    ELSE IF IsInt(user_answer[1])
         THEN Some(NatVal(SubSeq(user_answer[1], 1, 1)))
         ELSE None

quiz_complete_after(questions_asked) == questions_asked > MAX_QUESTIONS

\* the quiz is complete with the answer being handled
quiz_complete(questions_asked) == questions_asked >= MAX_QUESTIONS

\* int(user_answer) if user_answer else None, ValueError giving None
user_answer_int(user_answer) ==
    IF user_answer = None \/ user_answer[1] = <<>> THEN None
    ELSE IF IsInt(user_answer[1]) THEN Some(int(user_answer[1])) ELSE None

\* the question the handler ends up with after srs.get_next_question() and the
\* loop that draws again, at most max_attempts times, while the question is in
\* session_questions, with the number of further draws. Of these the model
\* follows one: a question not yet asked in the session, reached at the first
\* draw, when there is one; else one already asked, after max_attempts more.
next_question_draws(outs, session_questions) ==
    LET max_attempts_quiz == 10
        stale == {o \in outs : o.value[1].question_id \in SeqToSet(session_questions)}
        fresh == outs \ stale
    IN  IF fresh # {}
        THEN {[question |-> (CHOOSE o \in fresh : TRUE).value[1], attempts |-> 0]}
        ELSE IF stale # {}
        THEN {[question |-> (CHOOSE o \in stale : TRUE).value[1],
               attempts |-> max_attempts_quiz]}
        ELSE {}

InitQuiz ==
    \E current_player \in {None, Some(anna)} :
        /\ stats = EmptyStats
        /\ grade = 1
        /\ session_asked = {}
        /\ recent_questions = <<>>
        /\ now = 0
        /\ call = ACall("__init__", <<>>, FALSE, 1, None, FALSE)
        /\ result = NoResult
        /\ log = <<>>
        /\ answers = 0
        /\ candidates = <<>>
        /\ loaded = <<>>
        /\ persistent_attributes = <<>>
        /\ requests = <<>>
        /\ session_attr = [state |-> "NONE", current_question |-> None,
                           questions_asked |-> 0, correct_count |-> 0,
                           session_questions |-> <<>>, current_player |-> current_player]
        /\ request_envelope = [user_id |-> "u1", intent |-> "LaunchRequest", number |-> None]
        /\ response = [should_end_session |-> FALSE, question |-> None, attempts |-> 0]

\* QuizHandler.handle
QuizHandler ==
    LET name  == player_name(session_attr.current_player)
        attrs == persistent_item(persistent_attributes, request_envelope.user_id)
        r     == get_question_stats(attrs, name)
        g     == profile_grade(attrs, name)
    IN  /\ session_attr.state # "QUIZ"
        /\ r.exc = ""
        /\ \E out \in get_next_question(r.value, g, <<>>, now, 0) :
               /\ out.exc = ""
               /\ session_attr' = [session_attr EXCEPT
                      !.state = "QUIZ",
                      !.current_question = Some(serialize_question(out.value[1])),
                      !.questions_asked = 1,
                      !.correct_count = 0,
                      !.session_questions = <<out.value[1].question_id>>]
               /\ response' = [should_end_session |-> FALSE,
                               question |-> Some(out.value[1].question_id), attempts |-> 0]
        /\ stats' = r.value
        /\ grade' = g
        /\ session_asked' = {}
        /\ recent_questions' = <<>>
        /\ log' = <<>>
        /\ call' = ACall("get_next_question", <<>>, FALSE, g, None, FALSE)
        /\ result' = NoResult
        /\ request_envelope' = [request_envelope EXCEPT !.intent = "QuizIntent",
                                                        !.number = None]
        /\ UNCHANGED <<now, answers, candidates, loaded, persistent_attributes, requests>>

\* AnswerIntentHandler: can_handle and handle. The slot values of an answer:
\* none, empty, no number, the correct answer and a wrong one.
AnswerIntentHandler ==
    /\ session_attr.state = "QUIZ"
    /\ \E number \in LET correct_answer == session_attr.current_question[1].correct_answer
                    IN  {None, Some(<<>>), Some(<<"?">>), Some(str(correct_answer)),
                         Some(str(correct_answer + 1))} :
        LET current_q  == session_attr.current_question[1]
            name       == player_name(session_attr.current_player)
            attrs      == persistent_item(persistent_attributes, request_envelope.user_id)
            r          == get_question_stats(attrs, name)
            g          == profile_grade(attrs, name)
            is_correct == user_answer_int(number)[1] = current_q.correct_answer
            s          == record_answer(r.value, current_q.question_id, is_correct, now)
            saved      == save_question_stats(r.attrs, name, s)
            updated    == update_session_stats(saved, name, 1, IF is_correct THEN 1 ELSE 0,
                                               ~is_correct, now)
            correct_count == session_attr.correct_count + (IF is_correct THEN 1 ELSE 0)
        IN  /\ request_envelope' = [request_envelope EXCEPT !.intent = "AnswerIntent",
                                                            !.number = number]
            /\ IF user_answer_int(number) = None
               THEN /\ response' = [should_end_session |-> FALSE,
                                    question |-> Some(current_q.question_id),
                                    attempts |-> 0]
                    /\ UNCHANGED <<stats, grade, session_asked, recent_questions, call,
                                   result, log, answers, persistent_attributes,
                                   session_attr>>
               ELSE /\ answers < MaxQuizAnswers
                    /\ r.exc = ""
                    /\ stats' = s
                    /\ grade' = g
                    /\ session_asked' = {current_q.question_id}
                    /\ recent_questions' = <<current_q.question_id>>
                    /\ log' = Append(log, [question_id |-> current_q.question_id,
                                           correct |-> is_correct])
                    /\ answers' = answers + 1
                    /\ call' = ACall("record_answer", current_q.question_id, is_correct,
                                     g, None, FALSE)
                    /\ result' = NoResult
                    /\ persistent_attributes' =
                           commit(commit(persistent_attributes, request_envelope.user_id,
                                         saved, name),
                                  request_envelope.user_id, updated, name)
                    /\ IF quiz_complete(session_attr.questions_asked)
                       THEN /\ session_attr' = [session_attr EXCEPT
                                                    !.correct_count = correct_count,
                                                    !.state = "NONE"]
                            /\ response' = [should_end_session |-> TRUE,
                                            question |-> None, attempts |-> 0]
                       ELSE \E d \in next_question_draws(
                                         {o \in get_next_question(
                                                    s, g, <<current_q.question_id>>, now, 0) :
                                              o.exc = ""},
                                         session_attr.session_questions) :
                                /\ session_attr' = [session_attr EXCEPT
                                       !.correct_count = correct_count,
                                       !.current_question =
                                           Some(serialize_question(d.question)),
                                       !.questions_asked = @ + 1,
                                       !.session_questions =
                                           Append(@, d.question.question_id)]
                                /\ response' = [should_end_session |-> FALSE,
                                                question |-> Some(d.question.question_id),
                                                attempts |-> d.attempts]
    /\ UNCHANGED <<now, candidates, loaded, requests>>

NextQuiz == QuizHandler \/ AnswerIntentHandler

SpecQuiz == InitQuiz /\ [][NextQuiz]_vars

\* the step handles an AnswerIntent whose slot holds an integer
Graded ==
    /\ request_envelope'.intent = "AnswerIntent"
    /\ request_envelope'.number # None
    /\ IsInt(request_envelope'.number[1])
    /\ answers' # answers

\* C29: QuizHandler starts a quiz with questions_asked = 1 and correct_count = 0;
\* questions_asked never exceeds 10; the integer answer received while
\* questions_asked is 10 sets the state to NONE and ends the session without
\* choosing a question; every earlier integer answer chooses a next question and
\* increases questions_asked by exactly 1.
C29_QuizLength ==
    [][/\ session_attr'.questions_asked <= 10
       /\ request_envelope'.intent = "QuizIntent" =>
              /\ session_attr'.state = "QUIZ"
              /\ session_attr'.questions_asked = 1
              /\ session_attr'.correct_count = 0
       /\ Graded /\ session_attr.questions_asked = 10 =>
              /\ session_attr'.state = "NONE"
              /\ response'.should_end_session
              /\ response'.question = None
              /\ session_attr'.questions_asked = 10
              /\ session_attr'.current_question = session_attr.current_question
              /\ session_attr'.session_questions = session_attr.session_questions
       /\ Graded /\ session_attr.questions_asked < 10 =>
              /\ session_attr'.state = "QUIZ"
              /\ ~response'.should_end_session
              /\ session_attr'.questions_asked = session_attr.questions_asked + 1
              /\ response'.question # None
              /\ session_attr'.current_question[1].question_id = response'.question[1]
              /\ Len(session_attr'.session_questions) =
                     Len(session_attr.session_questions) + 1]_vars

\* the tenth answer of a quiz has ended it
C29_Witness ==
    /\ session_attr.state = "NONE"
    /\ session_attr.questions_asked = 10
    /\ Len(log) = 10
    /\ response.should_end_session
    /\ Len(session_attr.session_questions) = 10

\* the answers of the quiz that were recorded as correct
RecordedCorrect == {i \in 1..Len(log) : log[i].correct}

\* C30: an integer answer in quiz state makes exactly one record_answer call,
\* for the current question, with verdict "the integer equals the question's
\* correct answer"; correct_count is the number of answers of the quiz
\* recorded as correct and is at most questions_asked.
C30_GradedByEquality ==
    [][/\ session_attr'.correct_count = Cardinality({i \in 1..Len(log') : log'[i].correct})
       /\ session_attr'.correct_count <= session_attr'.questions_asked
       /\ Graded =>
              /\ answers' = answers + 1
              /\ log' = Append(log, [question_id |-> call'.question_id,
                                     correct |-> call'.correct])
              /\ call'.op = "record_answer"
              /\ call'.question_id = session_attr.current_question[1].question_id
              /\ call'.correct = (int(request_envelope'.number[1])
                                      = session_attr.current_question[1].correct_answer)]_vars

\* a quiz with both verdicts: a wrong answer was recorded after two right ones
C30_Witness ==
    /\ Len(log) >= 3
    /\ Cardinality(RecordedCorrect) = 2
    /\ session_attr.correct_count = 2
    /\ call.op = "record_answer" /\ ~call.correct
    /\ ~log[Len(log)].correct

-----------------------------------------------------------------------------
(* Frame conditions of the scheduler *)

\* C36: get_next_question changes neither the mastery map, nor the recency
\* list, nor the session-asked set, nor the grade; a second call right after a
\* first one can return what the first returned.
C36_NextQuestionReadOnly ==
    [][call'.op = "get_next_question" =>
          /\ UNCHANGED <<stats, recent_questions, session_asked, grade>>
          /\ call.op = "get_next_question" =>
                 result \in get_next_question(stats', grade', recent_questions', now', 0)]_vars

\* a recorded fact was reviewed while another one was in the recency list
C36_Witness ==
    /\ Asked
    /\ result.path = "review"
    /\ Len(recent_questions) = 1
    /\ Cardinality(DOMAIN stats) = 2
    /\ session_asked # {}

\* C38: record_answer(id, ...) leaves every other record of the mastery map and
\* the grade as they were; the record of id then has a last_asked and carries
\* id as its identifier when the call created it.
C38_OnlyTheAnsweredRecord ==
    [][Recorded =>
          /\ DOMAIN stats' = DOMAIN stats \cup {call'.question_id}
          /\ \A k \in DOMAIN stats \ {call'.question_id} : stats'[k] = stats[k]
          /\ grade' = grade
          /\ stats'[call'.question_id].last_asked # None
          /\ call'.question_id \notin DOMAIN stats =>
                 stats'[call'.question_id].question_id = call'.question_id]_vars

\* a record was created beside two stored ones that were never asked
C38_Witness ==
    /\ call.op = "record_answer"
    /\ DOMAIN stats = {div_5_0, add_x_5, call.question_id}
    /\ stats[div_5_0].last_asked = None
    /\ stats[call.question_id].last_asked = Some(now)
    /\ total_attempts(stats[call.question_id]) = 1

-----------------------------------------------------------------------------
(* A fresh scheduler under record_answer, every call and its verdict logged *)

AnswerLogged ==
    \E question_id \in RecordIds, correct \in BOOLEAN :
        /\ answers < MaxBoxAnswers
        /\ stats' = record_answer(stats, question_id, correct, now)
        /\ session_asked' = session_asked \cup {question_id}
        /\ recent_questions' = recent_after(recent_questions, question_id)
        /\ log' = Append(log, [question_id |-> question_id, correct |-> correct])
        /\ answers' = answers + 1
        /\ call' = ACall("record_answer", question_id, correct, grade, None, FALSE)
        /\ result' = NoResult
        /\ UNCHANGED <<grade, now>>
        /\ UNCHANGED handler_vars

SpecBox == InitFifo /\ [][AnswerLogged]_vars

\* the correct answers logged for the identifier since its last incorrect one
RECURSIVE Streak(_, _)
Streak(question_id, n) ==
    IF n = 0 THEN 0
    ELSE IF log[n].question_id # question_id THEN Streak(question_id, n - 1)
    ELSE IF log[n].correct THEN 1 + Streak(question_id, n - 1)
    ELSE 0

\* C37: a record created by record_answer is in box min(5, 1 + k), k being the
\* correct answers recorded for its identifier since the last incorrect one,
\* and its counts add up to the number of record_answer calls for the identifier.
C37_BoxFollowsStreak ==
    /\ DOMAIN stats = {log[i].question_id : i \in 1..Len(log)}
    /\ \A k \in DOMAIN stats :
           /\ stats[k].box = Min(5, 1 + Streak(k, Len(log)))
           /\ stats[k].correct_count + stats[k].incorrect_count =
                  Cardinality({i \in 1..Len(log) : log[i].question_id = k})

\* five correct answers after an incorrect one: the box stays at 5
C37_Witness ==
    /\ Len(log) = 6
    /\ ~log[1].correct
    /\ \A i \in 1..6 : log[i].question_id = add_1_1
    /\ Streak(add_1_1, 6) = 5
    /\ stats[add_1_1].box = 5
    /\ stats[add_1_1].incorrect_count = 1

-----------------------------------------------------------------------------
(* Weak and strong areas of one mastery map *)

\* C39: no operation is in the lists of get_weak_areas and of get_strong_areas
\* of the same mastery map.
C39_WeakOrStrong ==
    \A op \in Prefixes :
        \A weak \in get_weak_areas(stats), strong \in get_strong_areas(stats) :
            ~(/\ weak_op_names(op) \in SeqToSet(weak)
              /\ strong_op_names(op) \in SeqToSet(strong))

-----------------------------------------------------------------------------
(* The quiz handlers: answers that are no numbers, and what is stored *)

\* the step handles an AnswerIntent whose slot is missing or holds no integer
NotUnderstood ==
    /\ request_envelope'.intent = "AnswerIntent"
    /\ \/ request_envelope'.number = None
       \/ request_envelope'.number[1] = <<>>
       \/ ~IsInt(request_envelope'.number[1])

\* C33: an answer that is missing or no integer makes no record_answer call
\* and no write to the store, leaves state, current_question, questions_asked,
\* correct_count and session_questions as they were, and asks the current
\* question again.
C33_NotUnderstoodChangesNothing ==
    [][NotUnderstood =>
          /\ UNCHANGED <<answers, log, stats, persistent_attributes>>
          /\ session_attr'.state = session_attr.state
          /\ session_attr'.current_question = session_attr.current_question
          /\ session_attr'.questions_asked = session_attr.questions_asked
          /\ session_attr'.correct_count = session_attr.correct_count
          /\ session_attr'.session_questions = session_attr.session_questions
          /\ ~response'.should_end_session
          /\ response'.question = Some(session_attr.current_question[1].question_id)]_vars

\* "?" was answered to the third question of a quiz
C33_Witness ==
    /\ request_envelope.intent = "AnswerIntent"
    /\ request_envelope.number = Some(<<"?">>)
    /\ session_attr.state = "QUIZ"
    /\ session_attr.questions_asked = 3
    /\ answers = 2
    /\ response.question = Some(session_attr.current_question[1].question_id)

\* the mastery map the store holds for the session's player
StoredMap(table) ==
    get_question_stats(persistent_item(table, request_envelope.user_id),
                       player_name(session_attr.current_player)).value

\* C35: when AnswerIntentHandler has handled an integer answer, the mastery
\* record of the answered question that the store holds is the record the
\* scheduler made of that answer, with or without a current player in the
\* session.
C35_GradedAnswerIsStored ==
    [][Graded =>
          /\ call'.question_id \in DOMAIN StoredMap(persistent_attributes')
          /\ StoredMap(persistent_attributes')[call'.question_id]
                 = stats'[call'.question_id]]_vars

-----------------------------------------------------------------------------
(* alexa/persistence.py: the session statistics of one PersistenceManager.
   loaded is its _persistent_attrs, the item it read; call holds the arguments
   of its last update_session_stats call. *)

MaxStatsCalls == 3

InitSessionStats ==
    \E current_player \in {None, Some(anna)} :
        /\ stats = EmptyStats
        /\ grade = 1
        /\ session_asked = {}
        /\ recent_questions = <<>>
        /\ now = 0
        /\ call = [op |-> "__init__", questions_answered |-> 0, correct_answers |-> 0,
                   reset_streak |-> FALSE]
        /\ result = NoResult
        /\ log = <<>>
        /\ answers = 0
        /\ candidates = <<>>
        /\ loaded = <<>>
        /\ persistent_attributes = <<>>
        /\ requests = <<>>
        /\ session_attr = [state |-> "QUIZ", current_question |-> None,
                           questions_asked |-> 0, correct_count |-> 0,
                           session_questions |-> <<>>, current_player |-> current_player]
        /\ request_envelope = [user_id |-> "u1", intent |-> "AnswerIntent", number |-> None]
        /\ response = [should_end_session |-> FALSE, question |-> None, attempts |-> 0]

\* PersistenceManager.update_session_stats(questions_answered, correct_answers,
\* reset_streak)
SessionStatsUpdate ==
    \E questions_answered \in 0..2, reset_streak \in BOOLEAN :
        \E correct_answers \in 0..questions_answered :
            /\ answers < MaxStatsCalls
            /\ loaded' = update_session_stats(loaded, player_name(session_attr.current_player),
                                              questions_answered, correct_answers,
                                              reset_streak, now)
            /\ call' = [op |-> "update_session_stats",
                        questions_answered |-> questions_answered,
                        correct_answers |-> correct_answers,
                        reset_streak |-> reset_streak]
            /\ answers' = answers + 1
            /\ UNCHANGED <<stats, grade, session_asked, recent_questions, now, result, log,
                           candidates, persistent_attributes, requests, session_attr,
                           request_envelope, response>>

SpecSessionStats == InitSessionStats /\ [][SessionStatsUpdate]_vars

\* the session statistics the manager gives for the attributes attrs
SessionStatsOf(attrs) == get_session_stats(attrs, player_name(session_attr.current_player))

\* C32: over update_session_stats calls streak_best is at least streak_current
\* and never decreases; a call with reset_streak sets streak_current to 0 and
\* keeps streak_best, any other call adds correct_answers to streak_current;
\* total_questions and total_correct grow by the amounts passed.
C32_SessionStatsLaws ==
    [][call'.op = "update_session_stats" /\ answers' = answers + 1 =>
          LET before == SessionStatsOf(loaded)
              after  == SessionStatsOf(loaded')
          IN  /\ after.streak_best >= after.streak_current
              /\ after.streak_best >= before.streak_best
              /\ call'.reset_streak =>
                     /\ after.streak_current = 0
                     /\ after.streak_best = before.streak_best
              /\ ~call'.reset_streak =>
                     after.streak_current = before.streak_current + call'.correct_answers
              /\ after.total_questions = before.total_questions + call'.questions_answered
              /\ after.total_correct = before.total_correct + call'.correct_answers]_vars

-----------------------------------------------------------------------------
(* alexa/handlers/settings.py and setup.py: the grade of the profile, set
   during setup and changed by "leichter" / "schwerer" or an explicit grade.
   The session state is "NONE", "SETUP_GRADE" or "QUIZ"; of a stored profile
   only the grade is kept. *)

\* save_user_profile of a profile with grade g: the attributes after it
save_user_profile(attrs, name, g) ==
    _save_player_data(attrs, name,
        [_get_player_data(attrs, name) EXCEPT !.user_profile = Some([grade |-> g])])

\* increment_session_count: the attributes after it, at clock t
increment_session_count(attrs, name, t) ==
    LET s0 == get_session_stats(attrs, name)
    IN  _save_player_data(attrs, name,
            [_get_player_data(attrs, name) EXCEPT
                 !.session_stats = Some([s0 EXCEPT !.sessions_count = @ + 1,
                                                   !.last_session = Some(isoformat(t))])])

leichter == <<"l", "e", "i", "c", "h", "t", "e", "r">>
Schwerer == <<"S", "c", "h", "w", "e", "r", "e", "r">>
anders == <<"a", "n", "d", "e", "r", "s">>

\* SetDifficultyHandler.handle: new_grade from the profile's grade and the
\* values of the slots grade and direction
new_grade(current_grade, grade_value, direction_value) ==
    IF grade_value # None /\ grade_value[1] # <<>>
    THEN IF ~IsInt(grade_value[1]) THEN current_grade
         ELSE IF int(grade_value[1]) \in 1..4 THEN int(grade_value[1]) ELSE current_grade
    ELSE IF direction_value # None /\ direction_value[1] # <<>>
    THEN LET direction_lower == lower(direction_value[1])
         IN  IF direction_lower \in {<<"l", "e", "i", "c", "h", "t", "e", "r">>, <<"e", "i", "n", "f", "a", "c", "h", "e", "r">>, <<"l", "e", "i", "c", "h", "t">>}
             THEN Max(1, current_grade - 1)
             ELSE IF direction_lower \in {<<"s", "c", "h", "w", "e", "r", "e", "r">>, <<"s", "c", "h", "w", "i", "e", "r", "i", "g", "e", "r">>, <<"s", "c", "h", "w", "e", "r">>}
             THEN Min(4, current_grade + 1)
             ELSE current_grade
    ELSE current_grade

\* SetupGradeHandler.handle: grade from the id the slot resolved to, else from
\* the slot's value
setup_grade(value, resolution_id) ==
    IF resolution_id # None THEN Some(int(resolution_id[1]))
    ELSE IF value # None /\ value[1] # <<>> /\ IsInt(value[1]) THEN Some(int(value[1]))
    ELSE None

\* of the questions the scheduler can draw, one for each path and operation
one_per_operation(outs) ==
    {CHOOSE o \in outs : o.path = c[1] /\ o.value[1].operation = c[2] :
         c \in {<<o.path, o.value[1].operation>> : o \in outs}}

\* what account u1 holds when the session starts: nothing, or player anna
\* with a profile of grade g and a mastery map whose facts are legal for g
StoredAccounts ==
    {<<>>} \cup
    {Put(<<>>, "u1",
         save_question_stats(save_user_profile(<<>>, Some(anna), a[1]), Some(anna),
                             [k \in a[2] |-> Answered(k, 0, 1)])) :
         a \in {a \in (1..4) \X {{}, {add_1_1}, {sub_1_1}} :
                   sub_1_1 \in a[2] => a[1] >= 2}}

InitSettings ==
    \E current_player \in {None, Some(anna)}, state \in {"NONE", "SETUP_GRADE"},
       table \in StoredAccounts :
        /\ state = "SETUP_GRADE" => current_player # None
        /\ stats = EmptyStats
        /\ grade = 1
        /\ session_asked = {}
        /\ recent_questions = <<>>
        /\ now = 0
        /\ call = ACall("__init__", <<>>, FALSE, 1, None, FALSE)
        /\ result = NoResult
        /\ log = <<>>
        /\ answers = 0
        /\ candidates = <<>>
        /\ loaded = <<>>
        /\ persistent_attributes = table
        /\ requests = <<>>
        /\ session_attr = [state |-> state, current_question |-> None,
                           questions_asked |-> 0, correct_count |-> 0,
                           session_questions |-> <<>>, current_player |-> current_player]
        /\ request_envelope = [user_id |-> "u1", intent |-> "LaunchRequest", number |-> None,
                               grade |-> None, direction |-> None, resolution |-> None]
        /\ response = [should_end_session |-> FALSE, question |-> None, attempts |-> 0]

\* SetupGradeHandler: can_handle and handle. The dict for current_question
\* reads question.answer; result keeps the question drawn and the exception
\* that leaves the handler.
SetupGradeHandler ==
    /\ session_attr.state = "SETUP_GRADE"
    /\ \E value \in {None, Some(<<"?">>)} \cup {Some(str(n)) : n \in 0..5},
          resolution_id \in {None, Some(str(2))} :
        LET name  == player_name(session_attr.current_player)
            attrs == persistent_item(persistent_attributes, request_envelope.user_id)
            g     == setup_grade(value, resolution_id)
            saved == increment_session_count(save_user_profile(attrs, name, g[1]), name, now)
            r     == get_question_stats(saved, name)
            gs    == profile_grade(saved, name)
        IN  /\ resolution_id # None => value = Some(str(2))
            /\ request_envelope' = [request_envelope EXCEPT
                   !.intent = "SetGradeIntent", !.number = None, !.grade = value,
                   !.direction = None, !.resolution = resolution_id]
            /\ IF ~(g # None /\ g[1] # 0 /\ 1 <= g[1] /\ g[1] <= 4)
               THEN /\ response' = [should_end_session |-> FALSE, question |-> None,
                                    attempts |-> 0]
                    /\ UNCHANGED <<stats, grade, session_asked, recent_questions, call,
                                   result, persistent_attributes, session_attr>>
               ELSE /\ persistent_attributes' =
                           commit(persistent_attributes, request_envelope.user_id, saved, name)
                    /\ r.exc = ""
                    /\ stats' = r.value
                    /\ grade' = gs
                    /\ session_asked' = {}
                    /\ recent_questions' = <<>>
                    /\ call' = ACall("get_next_question", <<>>, FALSE, gs, None, FALSE)
                    /\ \E out \in one_per_operation({o \in get_next_question(
                                                             r.value, gs, <<>>, now, 0) :
                                                         o.exc = ""}) :
                           /\ out.exc = ""
                           /\ IF "answer" \in DOMAIN out.value[1]
                              THEN /\ session_attr' = [session_attr EXCEPT
                                          !.state = "QUIZ",
                                          !.current_question =
                                              Some([question_id |-> out.value[1].question_id,
                                                    answer      |-> out.value[1].answer,
                                                    operand1    |-> out.value[1].operand1,
                                                    operand2    |-> out.value[1].operand2,
                                                    operation   |-> out.value[1].operation]),
                                          !.correct_count = 0,
                                          !.questions_asked = 1]
                                   /\ result' = out
                                   /\ response' = [should_end_session |-> FALSE,
                                                   question |-> Some(out.value[1].question_id),
                                                   attempts |-> 0]
                              ELSE /\ session_attr' = [session_attr EXCEPT !.state = "QUIZ"]
                                   /\ result' = [out EXCEPT !.exc = "AttributeError"]
                                   /\ response' = [should_end_session |-> FALSE,
                                                   question |-> None, attempts |-> 0]
    /\ UNCHANGED <<now, log, answers, candidates, loaded, requests>>

\* SetDifficultyHandler: can_handle and handle. SetGradeIntent in state
\* SETUP_GRADE goes to SetupGradeHandler, which is asked first.
SetDifficultyHandler ==
    \E intent \in {"SetGradeIntent", "SetDifficultyIntent"},
       slots \in {<<None, d>> : d \in {None, Some(leichter), Some(Schwerer), Some(anders)}}
                 \cup {<<Some(str(n)), None>> : n \in 0..5}
                 \cup {<<Some(<<>>), Some(leichter)>>, <<Some(<<"?">>), Some(leichter)>>,
                       <<Some(str(3)), Some(leichter)>>} :
        LET grade_value     == slots[1]
            direction_value == slots[2]
            name          == player_name(session_attr.current_player)
            attrs         == persistent_item(persistent_attributes, request_envelope.user_id)
            current_grade == profile_grade(attrs, name)
            new           == new_grade(current_grade, grade_value, direction_value)
            saved         == IF new # current_grade THEN save_user_profile(attrs, name, new)
                             ELSE attrs
            r             == get_question_stats(saved, name)
        IN  /\ intent = "SetGradeIntent" => session_attr.state \notin {"QUIZ", "SETUP_GRADE"}
            /\ request_envelope' = [request_envelope EXCEPT
                   !.intent = intent, !.number = None, !.grade = grade_value,
                   !.direction = direction_value, !.resolution = None]
            /\ persistent_attributes' =
                   IF new # current_grade
                   THEN commit(persistent_attributes, request_envelope.user_id, saved, name)
                   ELSE persistent_attributes
            /\ IF session_attr.state = "QUIZ"
               THEN /\ r.exc = ""
                    /\ stats' = r.value
                    /\ grade' = new
                    /\ session_asked' = {}
                    /\ recent_questions' = <<>>
                    /\ call' = ACall("get_next_question", <<>>, FALSE, new, None, FALSE)
                    /\ \E out \in one_per_operation({o \in get_next_question(
                                                             r.value, new, <<>>, now, 0) :
                                                         o.exc = ""}) :
                           /\ out.exc = ""
                           /\ result' = out
                           /\ session_attr' = [session_attr EXCEPT
                                  !.current_question =
                                      Some(serialize_question(out.value[1]))]
                           /\ response' = [should_end_session |-> FALSE,
                                           question |-> Some(out.value[1].question_id),
                                           attempts |-> 0]
               ELSE /\ call' = ACall("save_user_profile", <<>>, FALSE, new, None, FALSE)
                    /\ result' = NoResult
                    /\ response' = [should_end_session |-> FALSE, question |-> None,
                                    attempts |-> 0]
                    /\ UNCHANGED <<stats, grade, session_asked, recent_questions,
                                   session_attr>>
    /\ UNCHANGED <<now, log, answers, candidates, loaded, requests>>

NextSettings == SetupGradeHandler \/ SetDifficultyHandler \/ QuizHandler

SpecSettings == InitSettings /\ [][NextSettings]_vars

\* the grade of the profile the store holds for the session's player
ProfileGrade(table) ==
    profile_grade(persistent_item(table, request_envelope.user_id),
                  player_name(session_attr.current_player))

\* C40: every question get_next_question returns has an operation that is
\* legal for the scheduler's grade, also when the grade was changed during
\* the quiz and the mastery map holds facts recorded at another grade.
C40_LegalAfterGradeChange ==
    Asked => result.value[1].operation \in SeqToSet(GRADE_CONFIGS[grade].operations)

\* the step is a request handled by SetDifficultyHandler
DifficultyRequest ==
    \/ request_envelope'.intent = "SetDifficultyIntent"
    \/ request_envelope'.intent = "SetGradeIntent" /\ session_attr.state # "SETUP_GRADE"

\* C31: over SetDifficultyHandler requests the profile's grade stays in 1..4;
\* with no grade given, an "easier" word lowers it by 1 but not below 1 and a
\* "harder" word raises it by 1 but not above 4; a grade given in 1..4 becomes
\* the profile's grade and a grade given outside 1..4 leaves it as it was.
C31_GradeStaysInRange ==
    [][DifficultyRequest =>
          LET before    == ProfileGrade(persistent_attributes)
              after     == ProfileGrade(persistent_attributes')
              given     == request_envelope'.grade
              direction == request_envelope'.direction
          IN  /\ before \in 1..4 => after \in 1..4
              /\ given = None /\ direction = Some(leichter) => after = Max(1, before - 1)
              /\ given = None /\ direction = Some(Schwerer) => after = Min(4, before + 1)
              /\ given = None /\ direction \in {None, Some(anders)} => after = before
              /\ given # None /\ given[1] # <<>> /\ IsInt(given[1]) =>
                     after = IF int(given[1]) \in 1..4 THEN int(given[1]) ELSE before]_vars

\* the step is a SetGradeIntent handled by SetupGradeHandler
SetupRequest ==
    /\ request_envelope'.intent = "SetGradeIntent"
    /\ session_attr.state = "SETUP_GRADE"

\* C34: a grade in 1..4 given in state SETUP_GRADE is saved to the player's
\* profile and the quiz starts in the same request: the handler completes with
\* state QUIZ, questions_asked 1, correct_count 0 and a current_question that
\* holds the scheduler's question with its correct answer; any other grade
\* leaves the state SETUP_GRADE and the store as it was.
C34_SetupStartsQuiz ==
    [][SetupRequest =>
          LET g == setup_grade(request_envelope'.grade, request_envelope'.resolution)
          IN  IF g # None /\ g[1] \in 1..4
              THEN /\ ProfileGrade(persistent_attributes') = g[1]
                   /\ result'.exc = ""
                   /\ session_attr'.state = "QUIZ"
                   /\ session_attr'.questions_asked = 1
                   /\ session_attr'.correct_count = 0
                   /\ session_attr'.current_question # None
                   /\ session_attr'.current_question[1].question_id
                          = result'.value[1].question_id
              ELSE /\ session_attr'.state = "SETUP_GRADE"
                   /\ UNCHANGED persistent_attributes]_vars

====
